---------------------------- MODULE Spec2Model ----------------------------
(***************************************************************************)
(* Model of the screenshot analysis pipeline of image-ai:                  *)
(*   backend/main.py                     POST /api/analyze                 *)
(*   backend/app/services/image_analyzer.py   ImageAnalyzer                *)
(*   backend/app/services/prompt_generator.py PromptGenerator              *)
(*                                                                         *)
(* The computer-vision libraries (OpenCV, scikit-learn, Tesseract) are the *)
(* environment.  A decoded image is the record of what they report on it:  *)
(*   width, height   image.shape                                           *)
(*   edges           external contours of the Canny edge map, each with    *)
(*                   the vertex count of its polygon approximation, its    *)
(*                   area and its bounding rectangle                       *)
(*   h_lines,v_lines HoughLinesP results (None or [len |-> segments])      *)
(*   clusters        the 8 k-means clusters: center and number of pixels   *)
(*   tokens          the OCR tokens: text, box, mean colour of the box     *)
(*   regions         external contours of the adaptive threshold image     *)
(*   circles         HoughCircles result (None or [rows |-> circles])      *)
(* Real numbers are exact: a proportion is a reduced fraction [num, den].  *)
(***************************************************************************)
EXTENDS Integers, Sequences, FiniteSets, TLC

\* Python's None; every value that may be None is a record
None == [none |-> TRUE]

(***************************************************************************)
(* Program constants.                                                      *)
(***************************************************************************)
n_colors == 8
MaxColors == 6
MaxTypography == 10
MaxElements == 15
MaxAssets == 10
MinWidth == 300
MinHeight == 200
MinRectRegions == 3
MaxTextLen == 100
MinFontSize == 12

(***************************************************************************)
(* Arithmetic helpers.                                                     *)
(***************************************************************************)
RECURSIVE GCD(_, _)
GCD(a, b) == IF b = 0 THEN a ELSE GCD(b, a % b)

Frac(n, d) == LET g == GCD(n, d) IN [num |-> n \div g, den |-> d \div g]

FracLT(a, b) == a.num * b.den < b.num * a.den
FracLE(a, b) == a.num * b.den <= b.num * a.den
FracAdd(a, b) == Frac(a.num * b.den + b.num * a.den, a.den * b.den)
FracDivInt(a, n) == Frac(a.num, a.den * n)

RECURSIVE FracSum(_)
FracSum(s) == IF s = <<>> THEN Frac(0, 1) ELSE FracAdd(Head(s), FracSum(Tail(s)))

Max2(a, b) == IF a >= b THEN a ELSE b
Min2(a, b) == IF a <= b THEN a ELSE b
Max3(a, b, c) == Max2(a, Max2(b, c))
Min3(a, b, c) == Min2(a, Min2(b, c))

\* s[:n]
Take(s, n) == SubSeq(s, 1, Min2(n, Len(s)))
\* s[n:]
Drop(s, n) == SubSeq(s, Min2(n, Len(s)) + 1, Len(s))

\* round(x, 2) of a fraction, in hundredths (half rounds up)
Round2(f) == (200 * f.num + f.den) \div (2 * f.den)

(***************************************************************************)
(* "#{:02x}{:02x}{:02x}".format(r, g, b): a sequence of 7 characters.      *)
(***************************************************************************)
HexDigits == <<"0", "1", "2", "3", "4", "5", "6", "7",
               "8", "9", "a", "b", "c", "d", "e", "f">>

HexByte(n) == <<HexDigits[(n \div 16) + 1], HexDigits[(n % 16) + 1]>>

HexCode(rgb) == <<"#">> \o HexByte(rgb[1]) \o HexByte(rgb[2]) \o HexByte(rgb[3])

Black == <<"#", "0", "0", "0", "0", "0", "0">>

\* variant: undecodable bytes yield an empty 1x1 image instead of None
load_image_blank(image_data) ==
    IF image_data.decodable THEN image_data.image
    ELSE [width |-> 1, height |-> 1, edges |-> <<>>, h_lines |-> None,
          v_lines |-> None, clusters |-> <<[center |-> <<0, 0, 0>>, count |-> 1]>>,
          tokens |-> <<>>, regions |-> <<>>, circles |-> None]

(***************************************************************************)
(* _load_image: the decoded image, or None when the bytes do not decode    *)
(* (cv2.imdecode returns None, or raises and the handler returns None).    *)
(***************************************************************************)
load_image(image_data) ==
    IF image_data.decodable THEN image_data.image ELSE None

\* variant: a contour of exactly 1% of the image area also counts
IsRectangularRegionInclusive(contour, width, height) ==
    contour.vertices = 4 /\ contour.area * 100 >= width * height

(***************************************************************************)
(* _is_website_screenshot, the body of its try block.                      *)
(***************************************************************************)
IsRectangularRegion(contour, width, height) ==
    /\ contour.vertices = 4
    /\ contour.area * 100 > width * height

RECURSIVE CountRectangular(_, _, _)
CountRectangular(contours, width, height) ==
    IF contours = <<>> THEN 0
    ELSE (IF IsRectangularRegion(Head(contours), width, height) THEN 1 ELSE 0)
         + CountRectangular(Tail(contours), width, height)

is_website_body(image) ==
    LET width == image.width
        height == image.height
        rectangular_regions == CountRectangular(image.edges, width, height)
    IN  /\ height <= 2 * width          \* 0.5 <= width / height
        /\ width <= 3 * height          \* width / height <= 3.0
        /\ rectangular_regions >= MinRectRegions
        /\ width >= MinWidth
        /\ height >= MinHeight

\* except: return True
ClassifierDefault == TRUE

is_website_screenshot(image, raised) ==
    IF raised THEN ClassifierDefault ELSE is_website_body(image)

ScreenshotWarning == "Image may not be a website/app screenshot"

(***************************************************************************)
(* _analyze_layout                                                         *)
(***************************************************************************)
LineCount(lines) == IF lines = None THEN 0 ELSE lines.len

\* variant: the column estimate is taken from the horizontal lines and the
\* row estimate from the vertical ones
analyze_layout_swapped(image) ==
    LET h_count == LineCount(image.h_lines)
        v_count == LineCount(image.v_lines)
        grid == h_count >= 2 /\ v_count >= 2
    IN  [layout_type |-> IF grid THEN "grid" ELSE "flexbox",
         grid_structure |-> IF grid
                            THEN [columns |-> h_count + 1, rows |-> v_count + 1]
                            ELSE None,
         spacing |-> [padding |-> "16px (estimated)",
                      margin |-> "12px (estimated)",
                      gap |-> "8px (estimated)"],
         alignment |-> "left-aligned (estimated)",
         responsive_hints |-> IF image.width > 768
                              THEN [list |-> <<"Desktop layout detected">>]
                              ELSE [list |-> <<"Mobile layout detected">>]]

analyze_layout_body(image) ==
    LET h_count == LineCount(image.h_lines)
        v_count == LineCount(image.v_lines)
        grid == h_count >= 2 /\ v_count >= 2
    IN  [layout_type |-> IF grid THEN "grid" ELSE "flexbox",
         grid_structure |-> IF grid
                            THEN [columns |-> v_count + 1, rows |-> h_count + 1]
                            ELSE None,
         spacing |-> [padding |-> "16px (estimated)",
                      margin |-> "12px (estimated)",
                      gap |-> "8px (estimated)"],
         alignment |-> "left-aligned (estimated)",
         responsive_hints |-> IF image.width > 768
                              THEN [list |-> <<"Desktop layout detected">>]
                              ELSE [list |-> <<"Mobile layout detected">>]]

\* variant: the fallback layout claims a grid and says nothing of alignment
LayoutDefaultGrid ==
    [layout_type |-> "grid",
     grid_structure |-> [columns |-> 1, rows |-> 1],
     spacing |-> [padding |-> "unknown", margin |-> "unknown", gap |-> "unknown"],
     alignment |-> "left",
     responsive_hints |-> None]

\* variant: the failure default names no layout kind
LayoutDefaultUntyped ==
    [layout_type |-> "",
     grid_structure |-> None,
     spacing |-> [padding |-> "unknown", margin |-> "unknown", gap |-> "unknown"],
     alignment |-> "unknown",
     responsive_hints |-> None]

LayoutDefault ==
    [layout_type |-> "flexbox",
     grid_structure |-> None,
     spacing |-> [padding |-> "unknown", margin |-> "unknown", gap |-> "unknown"],
     alignment |-> "unknown",
     responsive_hints |-> None]

analyze_layout(image, raised) ==
    IF raised THEN LayoutDefault ELSE analyze_layout_body(image)

\* variant: the dark-color rule is tried before the background rule
determine_color_usage_text_first(rgb, percentage) ==
    LET r == rgb[1]
        g == rgb[2]
        b == rgb[3]
        saturation == Max3(r, g, b) - Min3(r, g, b)
    IN  IF r < 100 /\ g < 100 /\ b < 100 THEN "Text"
        ELSE IF FracLT(Frac(3, 10), percentage) THEN "Background"
        ELSE IF /\ FracLE(Frac(1, 10), percentage)
                /\ FracLE(percentage, Frac(3, 10))
                /\ saturation > 50 THEN "Primary/Accent"
        ELSE IF saturation < 30 THEN "Border/Divider"
        ELSE "UI Element"

(***************************************************************************)
(* _determine_color_usage                                                  *)
(***************************************************************************)
determine_color_usage(rgb, percentage) ==
    LET r == rgb[1]
        g == rgb[2]
        b == rgb[3]
        saturation == Max3(r, g, b) - Min3(r, g, b)
    IN  IF FracLT(Frac(3, 10), percentage) THEN "Background"
        ELSE IF r < 100 /\ g < 100 /\ b < 100 THEN "Text"
        ELSE IF /\ FracLE(Frac(1, 10), percentage)
                /\ FracLE(percentage, Frac(3, 10))
                /\ saturation > 50 THEN "Primary/Accent"
        ELSE IF saturation < 30 THEN "Border/Divider"
        ELSE "UI Element"

(***************************************************************************)
(* _extract_colors                                                         *)
(***************************************************************************)
\* len(labels): every pixel is assigned to one cluster
NumPixels(clusters) ==
    LET RECURSIVE S(_)
        S(i) == IF i = 0 THEN 0 ELSE clusters[i].count + S(i - 1)
    IN  S(Len(clusters))

\* np.unique(labels, return_counts=True): the counts of the labels that
\* occur, in label order; color_percentages = counts / len(labels)
ColorPercentages(clusters) ==
    LET total == NumPixels(clusters)
        RECURSIVE P(_)
        P(i) == IF i > Len(clusters) THEN <<>>
                ELSE IF clusters[i].count > 0
                     THEN <<Frac(clusters[i].count, total)>> \o P(i + 1)
                     ELSE P(i + 1)
    IN  P(1)

ColorInfo(center, percentage) ==
    [hex_code |-> HexCode(center),
     rgb |-> center,
     usage_context |-> determine_color_usage(center, percentage),
     element_type |-> "detected",
     confidence |-> percentage]

\* for i, (center, percentage) in enumerate(zip(centers, color_percentages))
ZipColors(clusters) ==
    LET pct == ColorPercentages(clusters)
    IN  [i \in 1..Min2(Len(clusters), Len(pct)) |-> ColorInfo(clusters[i].center, pct[i])]

\* colors.sort(key=lambda x: x.confidence, reverse=True): stable
RECURSIVE InsertByConfidence(_, _)
InsertByConfidence(c, sorted) ==
    IF sorted = <<>> THEN <<c>>
    ELSE IF FracLT(Head(sorted).confidence, c.confidence)
         THEN <<c>> \o sorted
         ELSE <<Head(sorted)>> \o InsertByConfidence(c, Tail(sorted))

\* variant: the clusters are kept in the order k-means found them
KeepClusterOrder(colors) == colors

RECURSIVE SortByConfidence(_)
SortByConfidence(colors) ==
    IF colors = <<>> THEN <<>>
    ELSE InsertByConfidence(colors[Len(colors)],
                            SortByConfidence(SubSeq(colors, 1, Len(colors) - 1)))

extract_colors_body(image) ==
    Take(SortByConfidence(ZipColors(image.clusters)), MaxColors)

extract_colors(image, raised) ==
    IF raised THEN <<>> ELSE extract_colors_body(image)

(***************************************************************************)
(* _analyze_typography.  A text is a sequence of characters.               *)
(***************************************************************************)
\* str.strip() removes whitespace
IsSpace(ch) == ch \in {" ", "\t", "\n"}

RECURSIVE LStrip(_)
LStrip(t) == IF t # <<>> /\ IsSpace(Head(t)) THEN LStrip(Tail(t)) ELSE t

RECURSIVE RStrip(_)
RStrip(t) ==
    IF t # <<>> /\ IsSpace(t[Len(t)]) THEN RStrip(SubSeq(t, 1, Len(t) - 1)) ELSE t

Strip(t) == RStrip(LStrip(t))

\* max(12, int(height * 0.8))
FontSize(height) == Max2(MinFontSize, (height * 8) \div 10)

\* int(font_size * 1.4): the float product of 45, 85 and 90 falls just
\* below the integer
LineHeight(font_size) ==
    IF font_size \in {45, 85, 90} THEN (font_size * 14) \div 10 - 1
    ELSE (font_size * 14) \div 10

\* variant: the region is sliced without the bounds test (numpy clips the
\* slice to the image)
TextColorUnguarded(image, tok) ==
    IF tok.width * tok.height > 0 THEN HexCode(tok.mean) ELSE Black

TextColor(image, tok) ==
    LET x == tok.left
        y == tok.top
        w == tok.width
        h == tok.height
    IN  IF x >= 0 /\ y >= 0 /\ x + w <= image.width /\ y + h <= image.height
        THEN IF w * h > 0 THEN HexCode(tok.mean) ELSE Black
        ELSE Black

Typography(image, tok) ==
    LET font_size == FontSize(tok.height)
    IN  [font_family |-> "System font (estimated)",
         font_size |-> font_size,
         font_weight |-> IF font_size > 24 THEN "bold"
                         ELSE IF font_size > 18 THEN "semi-bold" ELSE "normal",
         color |-> TextColor(image, tok),
         text_content |-> Take(Strip(tok.text), MaxTextLen),
         element_type |-> IF font_size > 24 THEN "heading"
                          ELSE IF font_size > 18 THEN "subheading" ELSE "body",
         alignment |-> "left",
         line_height |-> LineHeight(font_size)]

RECURSIVE TypographyElements(_, _)
TypographyElements(image, tokens) ==
    IF tokens = <<>> THEN <<>>
    ELSE (IF Strip(Head(tokens).text) # <<>>
          THEN <<Typography(image, Head(tokens))>> ELSE <<>>)
         \o TypographyElements(image, Tail(tokens))

\* variant: the cap is applied to the scanned tokens, blank ones included
analyze_typography_capped_scan(image) ==
    TypographyElements(image, Take(image.tokens, MaxTypography))

analyze_typography_body(image) ==
    Take(TypographyElements(image, image.tokens), MaxTypography)

analyze_typography(image, raised) ==
    IF raised THEN <<>> ELSE analyze_typography_body(image)

\* variant: the input rule is tried before the button rule
ElementKindInputFirst(w, h) ==
    IF w > 3 * h /\ h <= 50 THEN "input"
    ELSE IF 3 * h <= 2 * w /\ w <= 6 * h /\ 20 <= h /\ h <= 100 THEN "button"
    ELSE "container"

(***************************************************************************)
(* _detect_interactive_elements                                            *)
(***************************************************************************)
ElementKind(w, h) ==
    IF 3 * h <= 2 * w /\ w <= 6 * h /\ 20 <= h /\ h <= 100 THEN "button"
    ELSE IF w > 3 * h /\ h <= 50 THEN "input"
    ELSE "container"

InteractiveElement(contour) ==
    [element_type |-> ElementKind(contour.w, contour.h),
     position |-> [x |-> contour.x, y |-> contour.y],
     dimensions |-> [width |-> contour.w, height |-> contour.h],
     styling |-> [background_color |-> HexCode(contour.mean),
                  border_radius |-> "4px (estimated)",
                  padding |-> "8px 16px (estimated)"]]

RECURSIVE InteractiveElements(_, _, _)
InteractiveElements(contours, width, height) ==
    IF contours = <<>> THEN <<>>
    ELSE (IF 500 < Head(contours).area /\ Head(contours).area * 10 < width * height
          THEN <<InteractiveElement(Head(contours))>> ELSE <<>>)
         \o InteractiveElements(Tail(contours), width, height)

detect_interactive_elements_body(image) ==
    Take(InteractiveElements(image.regions, image.width, image.height), MaxElements)

detect_interactive_elements(image, raised) ==
    IF raised THEN <<>> ELSE detect_interactive_elements_body(image)

(***************************************************************************)
(* _catalog_assets                                                         *)
(***************************************************************************)
IconAsset(c) ==
    [asset_type |-> "icon",
     dimensions |-> [width |-> c.r * 2, height |-> c.r * 2],
     position |-> [x |-> c.x - c.r, y |-> c.y - c.r],
     alt_text_intent |-> "Circular icon/logo"]

ImageAsset(contour) ==
    [asset_type |-> "image",
     dimensions |-> [width |-> contour.w, height |-> contour.h],
     position |-> [x |-> contour.x, y |-> contour.y],
     alt_text_intent |-> "Content image"]

IconAssets(circles) ==
    IF circles = None THEN <<>>
    ELSE [i \in 1..Len(circles.rows) |-> IconAsset(circles.rows[i])]

RECURSIVE ImageAssets(_)
ImageAssets(contours) ==
    IF contours = <<>> THEN <<>>
    ELSE LET c == Head(contours)
         IN  (IF /\ c.area > 2000
                 /\ c.h <= 2 * c.w /\ c.w <= 3 * c.h
                 /\ c.w > 50 /\ c.h > 50
              THEN <<ImageAsset(c)>> ELSE <<>>)
             \o ImageAssets(Tail(contours))

\* variant: every icon and image asset is kept
catalog_assets_uncapped(image) ==
    IconAssets(image.circles) \o ImageAssets(image.edges)

\* variant: the image pass is listed before the icon pass
catalog_assets_images_first(image) ==
    Take(ImageAssets(image.edges) \o IconAssets(image.circles), MaxAssets)

catalog_assets_body(image) ==
    Take(IconAssets(image.circles) \o ImageAssets(image.edges), MaxAssets)

catalog_assets(image, raised) ==
    IF raised THEN <<>> ELSE catalog_assets_body(image)

(***************************************************************************)
(* _analyze_global_styles: fixed values; its handler's value on failure.   *)
(***************************************************************************)
GlobalStylesValue ==
    [borders |-> [default |-> "1px solid #e0e0e0", focus |-> "2px solid #2196f3"],
     shadows |-> [card |-> "0 2px 4px rgba(0,0,0,0.1)",
                  button |-> "0 1px 2px rgba(0,0,0,0.1)"],
     border_radius |-> [small |-> "4px", medium |-> "8px", large |-> "12px"],
     breakpoints |-> [mobile |-> "768px", tablet |-> "1024px", desktop |-> "1200px"]]

GlobalStylesDefault ==
    [borders |-> <<>>, shadows |-> <<>>, border_radius |-> <<>>, breakpoints |-> None]

analyze_global_styles(image, raised) ==
    IF raised THEN GlobalStylesDefault ELSE GlobalStylesValue

(***************************************************************************)
(* _synthesize_style_guide                                                 *)
(***************************************************************************)
FallbackPrimary == <<"#", "2", "1", "9", "6", "f", "3">>
FallbackSecondary == <<"#", "7", "5", "7", "5", "7", "5">>

\* variant: a color counts as primary from a confidence of 0.15 on
RECURSIVE PrimaryColorsFrom15(_)
PrimaryColorsFrom15(cs) ==
    IF cs = <<>> THEN <<>>
    ELSE (IF FracLT(Frac(15, 100), Head(cs).confidence)
          THEN <<Head(cs).hex_code>> ELSE <<>>)
         \o PrimaryColorsFrom15(Tail(cs))

RECURSIVE PrimaryColors(_)
PrimaryColors(cs) ==
    IF cs = <<>> THEN <<>>
    ELSE (IF FracLT(Frac(1, 10), Head(cs).confidence)
          THEN <<Head(cs).hex_code>> ELSE <<>>)
         \o PrimaryColors(Tail(cs))

HexCodes(cs) == [i \in 1..Len(cs) |-> cs[i].hex_code]

\* list(set([t.font_family for t in typography])): the order of a set's
\* elements is a choice of the runtime
FontStacks(typography) ==
    LET families == {typography[i].font_family : i \in 1..Len(typography)}
    IN  {f \in [1..Cardinality(families) -> families] :
            \A a, b \in 1..Cardinality(families) : f[a] = f[b] => a = b}

\* variant: the secondary colors are the 3 entries after the last primary one
synthesize_style_guide_next_after_primary(colors, typography, fonts) ==
    LET primary_colors == PrimaryColors(Take(colors, 3))
        n == Len(primary_colors)
        secondary_colors == HexCodes(SubSeq(colors, n + 1, Min2(n + 3, Len(colors))))
    IN  [primary_colors |-> primary_colors,
         secondary_colors |-> secondary_colors,
         font_stack |-> Take(fonts, 3),
         spacing_scale |-> <<"4px", "8px", "12px", "16px", "24px", "32px", "48px", "64px">>,
         design_tokens |->
            [primary |-> IF primary_colors # <<>> THEN primary_colors[1]
                         ELSE FallbackPrimary,
             secondary |-> IF secondary_colors # <<>> THEN secondary_colors[1]
                           ELSE FallbackSecondary,
             base_font_size |-> "16px",
             line_height |-> "1.5"]]

synthesize_style_guide_body(colors, typography, fonts) ==
    LET primary_colors == PrimaryColors(Take(colors, 3))
        secondary_colors == HexCodes(SubSeq(colors, 4, Min2(6, Len(colors))))
    IN  [primary_colors |-> primary_colors,
         secondary_colors |-> secondary_colors,
         font_stack |-> Take(fonts, 3),
         spacing_scale |-> <<"4px", "8px", "12px", "16px", "24px", "32px", "48px", "64px">>,
         design_tokens |->
            [primary |-> IF primary_colors # <<>> THEN primary_colors[1]
                         ELSE FallbackPrimary,
             secondary |-> IF secondary_colors # <<>> THEN secondary_colors[1]
                           ELSE FallbackSecondary,
             base_font_size |-> "16px",
             line_height |-> "1.5"]]

StyleGuideDefault ==
    [primary_colors |-> <<FallbackPrimary>>,
     secondary_colors |-> <<FallbackSecondary>>,
     font_stack |-> <<"Arial", "sans-serif">>,
     spacing_scale |-> <<"8px", "16px", "24px">>,
     design_tokens |-> <<>>]

synthesize_style_guide(colors, typography, fonts, raised) ==
    IF raised THEN StyleGuideDefault
    ELSE synthesize_style_guide_body(colors, typography, fonts)

(***************************************************************************)
(* _label_components: the dict, as the sequence of its entries in          *)
(* insertion order; the key f"element_{i}" is the pair <<"element_", i>>   *)
(* and a label f"Button {k}" the pair <<"Button", k>>.                     *)
(***************************************************************************)
RECURSIVE CountKind(_, _, _)
CountKind(elements, kind, n) ==
    IF n = 0 THEN 0
    ELSE (IF elements[n].element_type = kind THEN 1 ELSE 0)
         + CountKind(elements, kind, n - 1)

\* variant: containers are numbered by a counter of their own
label_components_container_counter(elements) ==
    [j \in 1..Len(elements) |->
        [key |-> <<"element_", j - 1>>,
         label |-> IF elements[j].element_type = "button"
                   THEN <<"Button", CountKind(elements, "button", j)>>
                   ELSE IF elements[j].element_type = "input"
                   THEN <<"Input Field", CountKind(elements, "input", j)>>
                   ELSE <<"Container", CountKind(elements, "container", j)>>]]

\* variant: inputs share the buttons' label text
label_components_one_text(elements) ==
    [j \in 1..Len(elements) |->
        [key |-> <<"element_", j - 1>>,
         label |-> IF elements[j].element_type = "button"
                   THEN <<"Button", CountKind(elements, "button", j)>>
                   ELSE IF elements[j].element_type = "input"
                   THEN <<"Button", CountKind(elements, "input", j)>>
                   ELSE <<"Container", j>>]]

label_components_body(elements) ==
    [j \in 1..Len(elements) |->
        [key |-> <<"element_", j - 1>>,
         label |-> IF elements[j].element_type = "button"
                   THEN <<"Button", CountKind(elements, "button", j)>>
                   ELSE IF elements[j].element_type = "input"
                   THEN <<"Input Field", CountKind(elements, "input", j)>>
                   ELSE <<"Container", j>>]]

label_components(elements, raised) ==
    IF raised THEN <<>> ELSE label_components_body(elements)

(***************************************************************************)
(* _calculate_confidence                                                   *)
(***************************************************************************)
Confidences(colors) == [i \in 1..Len(colors) |-> colors[i].confidence]

\* variant: the factors are added up but not averaged
calculate_confidence_sum(layout, colors, typography, elements) ==
    FracSum((IF layout.layout_type # "" THEN <<Frac(8, 10)>> ELSE <<>>)
            \o (IF colors # <<>>
                THEN <<FracDivInt(FracSum(Confidences(colors)), Len(colors))>>
                ELSE <<>>)
            \o (IF typography # <<>> THEN <<Frac(7, 10)>> ELSE <<>>)
            \o (IF elements # <<>> THEN <<Frac(6, 10)>> ELSE <<>>))

\* variant: an empty list is averaged in as a factor of zero
calculate_confidence_zeroed(layout, colors, typography, elements) ==
    FracDivInt(
        FracSum((IF layout.layout_type # "" THEN <<Frac(8, 10)>> ELSE <<>>)
                \o (IF colors # <<>>
                    THEN <<FracDivInt(FracSum(Confidences(colors)), Len(colors))>>
                    ELSE <<>>)
                \o (IF typography # <<>> THEN <<Frac(7, 10)>> ELSE <<>>)
                \o (IF elements # <<>> THEN <<Frac(6, 10)>> ELSE <<>>)),
        4)

calculate_confidence_body(layout, colors, typography, elements) ==
    LET confidence_factors ==
            (IF layout.layout_type # "" THEN <<Frac(8, 10)>> ELSE <<>>)
            \o (IF colors # <<>>
                THEN <<FracDivInt(FracSum(Confidences(colors)), Len(colors))>>
                ELSE <<>>)
            \o (IF typography # <<>> THEN <<Frac(7, 10)>> ELSE <<>>)
            \o (IF elements # <<>> THEN <<Frac(6, 10)>> ELSE <<>>)
    IN  IF confidence_factors # <<>>
        THEN FracDivInt(FracSum(confidence_factors), Len(confidence_factors))
        ELSE Frac(1, 2)

calculate_confidence(layout, colors, typography, elements, raised) ==
    IF raised THEN Frac(1, 2)
    ELSE calculate_confidence_body(layout, colors, typography, elements)

(***************************************************************************)
(* PromptGenerator.  A section is the record of the values its template    *)
(* interpolates; formatted numbers are sequences of characters.            *)
(* metadata's prompt_word_count and prompt_character_count are functions   *)
(* of full_prompt and are not modelled separately.                         *)
(***************************************************************************)
Digits == <<"0", "1", "2", "3", "4", "5", "6", "7", "8", "9">>

RECURSIVE IntChars(_)
IntChars(n) ==
    IF n < 10 THEN <<Digits[n + 1]>>
    ELSE IntChars(n \div 10) \o <<Digits[(n % 10) + 1]>>

\* f"{x:.2f}" of a value x given in hundredths
Fixed2(h) ==
    IntChars(h \div 100) \o <<".", Digits[((h \div 10) % 10) + 1], Digits[(h % 10) + 1]>>

\* f"{x:.1%}" of a value x given in hundredths
Percent1(h) == IntChars(h) \o <<".", "0", "%">>

Upper(layout_type) == IF layout_type = "grid" THEN "GRID" ELSE "FLEXBOX"

generate_overview(analysis) ==
    [template |-> "overview",
     file |-> analysis.image_info.filename,
     width |-> analysis.image_info.dimensions.width,
     height |-> analysis.image_info.dimensions.height,
     layout_system |-> Upper(analysis.layout.layout_type),
     detected_colors |-> Len(analysis.colors),
     text_elements |-> Len(analysis.typography),
     interactive_elements |-> Len(analysis.interactive_elements),
     analysis_confidence |-> Percent1(analysis.confidence_score),
     processing_quality |-> Fixed2(analysis.processing_time)]

generate_layout_section(layout) ==
    [template |-> "layout", layout |-> layout]

generate_colors_section(colors) ==
    IF colors = <<>> THEN [template |-> "colors: no color data detected"]
    ELSE [template |-> "colors", colors |-> colors]

generate_typography_section(typography) ==
    IF typography = <<>> THEN [template |-> "typography: no text detected"]
    ELSE [template |-> "typography", typography |-> typography]

generate_components_section(elements) ==
    IF elements = <<>> THEN [template |-> "components: no interactive elements detected"]
    ELSE [template |-> "components", elements |-> elements]

generate_styling_section(global_styles, style_guide) ==
    [template |-> "styling",
     primary_font |-> IF style_guide.font_stack # <<>> THEN style_guide.font_stack[1]
                      ELSE "Arial, sans-serif",
     secondary_font |-> IF Len(style_guide.font_stack) > 1 THEN style_guide.font_stack[2]
                        ELSE "Arial, sans-serif",
     base_font_size |-> IF style_guide.design_tokens # <<>>
                        THEN style_guide.design_tokens.base_font_size ELSE "16px",
     line_height |-> IF style_guide.design_tokens # <<>>
                     THEN style_guide.design_tokens.line_height ELSE "1.5",
     primary_color |-> IF style_guide.primary_colors # <<>>
                       THEN style_guide.primary_colors[1] ELSE FallbackPrimary]

\* variant: the implementation section also quotes the duration
generate_implementation_timed(analysis) ==
    [template |-> "implementation",
     confidence |-> Percent1(analysis.confidence_score),
     layout_system |-> analysis.layout.layout_type,
     width |-> analysis.image_info.dimensions.width,
     height |-> analysis.image_info.dimensions.height,
     duration |-> Fixed2(analysis.processing_time)]

generate_implementation_section(analysis) ==
    [template |-> "implementation",
     confidence |-> Percent1(analysis.confidence_score),
     layout_system |-> analysis.layout.layout_type,
     width |-> analysis.image_info.dimensions.width,
     height |-> analysis.image_info.dimensions.height]

generate_assets_section(assets) ==
    [template |-> "assets", assets |-> assets]

\* "" for an absent section
Blank == [template |-> ""]

Sections(analysis) ==
    [overview |-> generate_overview(analysis),
     layout |-> generate_layout_section(analysis.layout),
     colors |-> generate_colors_section(analysis.colors),
     typography |-> generate_typography_section(analysis.typography),
     components |-> generate_components_section(analysis.interactive_elements),
     styling |-> generate_styling_section(analysis.global_styles, analysis.style_guide),
     implementation |-> generate_implementation_section(analysis),
     assets |-> IF analysis.assets # <<>> THEN generate_assets_section(analysis.assets)
                ELSE Blank]

combine_sections(sections) ==
    LET order == <<"overview", "layout", "colors", "typography", "components",
                   "styling", "implementation", "assets">>
    IN  SelectSeq([i \in 1..Len(order) |-> sections[order[i]]], LAMBDA sec : sec # Blank)

generate_full_prompt(analysis) ==
    LET sections == Sections(analysis)
        full_prompt == combine_sections(sections)
    IN  [title |-> <<"PIXEL-PERFECT RECREATION: ", analysis.image_info.filename>>,
         description |-> [colors |-> Len(analysis.colors),
                          text_elements |-> Len(analysis.typography),
                          components |-> Len(analysis.interactive_elements)],
         full_prompt |-> full_prompt,
         sections |-> sections,
         metadata |->
            [analysis_confidence |-> analysis.confidence_score,
             processing_time_seconds |-> analysis.processing_time,
             detected_colors |-> Len(analysis.colors),
             detected_text_elements |-> Len(analysis.typography),
             detected_interactive_elements |-> Len(analysis.interactive_elements),
             detected_assets |-> Len(analysis.assets),
             layout_system |-> analysis.layout.layout_type,
             accuracy_level |-> "pixel-perfect",
             recreation_difficulty |->
                IF analysis.confidence_score > 80 THEN "high"
                ELSE IF analysis.confidence_score > 60 THEN "medium"
                ELSE "challenging"]]

(***************************************************************************)
(* AnalysisResponse(...) as built by analyze_image; processing_time and    *)
(* confidence_score are round(x, 2), in hundredths.                        *)
(***************************************************************************)
\* round(time.time() - start_time, 2) of a duration given in milliseconds
RoundTime(ms) == Round2(Frac(ms, 1000))

AnalysisResponse(layout_, colors_, typography_, interactive_elements_, assets_, global_styles_, style_guide_, component_labels_, image_, filename_, processing_time_, confidence_score_, warnings_) ==
    [layout |-> layout_,
     colors |-> colors_,
     typography |-> typography_,
     interactive_elements |-> interactive_elements_,
     assets |-> assets_,
     global_styles |-> global_styles_,
     style_guide |-> style_guide_,
     component_labels |-> component_labels_,
     generated_prompt |-> None,
     image_info |-> [filename |-> filename_,
                     dimensions |-> [width |-> image_.width, height |-> image_.height],
                     channels |-> 3,
                     format |-> "detected_from_content"],
     processing_time |-> RoundTime(processing_time_),
     confidence_score |-> Round2(confidence_score_),
     warnings |-> warnings_]

(***************************************************************************)
(* The environment: the uploads a client sends and what the libraries      *)
(* find in them.                                                           *)
(***************************************************************************)
MaxTokens == 14
MaxRegions == 17
MaxCircles == 8

Palette ==
    << <<255, 255, 255>>, <<33, 33, 33>>, <<33, 150, 243>>, <<200, 200, 200>>,
       <<244, 67, 54>>, <<120, 130, 125>>, <<0, 0, 0>>, <<250, 250, 240>> >>

\* the 8 clusters of an image whose pixels split as shares (in 20ths)
Clusters(shares, width, height) ==
    [i \in 1..n_colors |->
        [center |-> Palette[i],
         count |-> shares[i] * ((width * height) \div 20)]]

Token(i) ==
    [text |-> IF i % 4 = 0 THEN <<" ", " ">>
              ELSE IF i % 5 = 0 THEN <<" ">> \o [k \in 1..(MaxTextLen + 5) |-> "x"]
              ELSE <<"w">> \o IntChars(i) \o <<" ">>,
     left |-> IF i % 3 = 0 THEN -5 ELSE 20 * i,
     top |-> 30 * i,
     width |-> IF i % 7 = 0 THEN 0 ELSE 40,
     height |-> 10 + 3 * i,
     mean |-> Palette[(i % n_colors) + 1]]

Region(i) ==
    [area |-> 300 * i,
     x |-> 10 * i,
     y |-> 5 * i,
     w |-> 20 + 45 * (i % 5),
     h |-> 10 + 15 * (i % 4),
     mean |-> Palette[(i % n_colors) + 1]]

Circle(i) == [x |-> 50 * i, y |-> 40, r |-> 10 + i]

Quad(i) == [vertices |-> 4, area |-> 6000, x |-> 150 * i, y |-> 20, w |-> 100, h |-> 60]

Dims == {<<1000, 500>>, <<600, 400>>}
EdgeKinds == {"none", "quads"}
PaletteKinds == {"flat", "sparse", "dense"}
Amounts == {"none", "many"}

\* the pixel shares of the 8 clusters, in 20ths
Shares(palette) ==
    IF palette = "flat" THEN <<20, 0, 0, 0, 0, 0, 0, 0>>
    ELSE IF palette = "sparse" THEN <<0, 5, 0, 12, 3, 0, 0, 0>>
    ELSE <<7, 4, 3, 2, 1, 1, 1, 1>>

MkImage(dims, edge_kind, palette, text, boxes, shapes) ==
    [width |-> dims[1],
     height |-> dims[2],
     edges |-> IF edge_kind = "none" THEN <<>> ELSE [i \in 1..3 |-> Quad(i)],
     h_lines |-> IF shapes = "none" THEN None ELSE [len |-> 2],
     v_lines |-> IF shapes = "none" THEN None ELSE [len |-> 3],
     clusters |-> Clusters(Shares(palette), dims[1], dims[2]),
     tokens |-> IF text = "none" THEN <<>> ELSE [i \in 1..MaxTokens |-> Token(i)],
     regions |-> IF boxes = "none" THEN <<>> ELSE [i \in 1..MaxRegions |-> Region(i)],
     circles |-> IF shapes = "none" THEN None
                 ELSE [rows |-> [i \in 1..MaxCircles |-> Circle(i)]]]

Images ==
    {MkImage(d, e, p, t, b, sh) :
        d \in Dims, e \in EdgeKinds, p \in PaletteKinds,
        t \in Amounts, b \in Amounts, sh \in Amounts}

SampleImage == MkImage(<<1000, 500>>, "quads", "dense", "many", "many", "many")

\* the steps of analyze_image in which an exception may arise internally
GuardedStages ==
    {"classifier", "layout", "colors", "typography", "elements", "assets",
     "global_styles", "style_guide", "labels", "confidence"}
FailableStages == GuardedStages \cup {"assemble", "prompt"}
FailSets == {{}} \cup {{st} : st \in FailableStages} \cup {GuardedStages}

\* UploadFile.content_type: None, or mime type "<kind>/<subtype>"
ImagePng == [kind |-> "image", subtype |-> "png"]
TextPlain == [kind |-> "text", subtype |-> "plain"]

Undecodable == [decodable |-> FALSE, image |-> None]

Requests ==
    {[content_type |-> ImagePng, filename |-> "shot.png",
      data |-> [decodable |-> TRUE, image |-> im], fails |-> fs] :
        im \in Images, fs \in FailSets}
    \cup {[content_type |-> ct, filename |-> "shot.png", data |-> d, fails |-> {}] :
            ct \in {ImagePng, TextPlain, None},
            d \in {Undecodable,
                   [decodable |-> TRUE, image |-> SampleImage]}}

\* time.time() - start_time, in milliseconds
ElapsedMs == {48, 12340}

(***************************************************************************)
(* State.  One request of POST /api/analyze at a time: the handler of      *)
(* main.py and, inside it, ImageAnalyzer.analyze_image with its locals.    *)
(* After the response the client may send the same upload once more; prev  *)
(* then holds what the first request returned.                             *)
(***************************************************************************)
VARIABLES request, pc, started, image, warnings, layout, colors, typography, interactive_elements, assets, global_styles, style_guide, component_labels, processing_time, confidence_score, response, exc, http, prev

vars == <<request, pc, started, image, warnings, layout, colors, typography, interactive_elements, assets, global_styles, style_guide, component_labels, processing_time, confidence_score, response, exc, http, prev>>

locals == <<image, warnings, layout, colors, typography, interactive_elements, assets, global_styles, style_guide, component_labels, processing_time, confidence_score, response>>

\* a local that is not bound yet
Unset == [unset |-> TRUE]

Fresh ==
    /\ pc = "validate"
    /\ started = <<>>
    /\ image = Unset
    /\ warnings = Unset
    /\ layout = Unset
    /\ colors = Unset
    /\ typography = Unset
    /\ interactive_elements = Unset
    /\ assets = Unset
    /\ global_styles = Unset
    /\ style_guide = Unset
    /\ component_labels = Unset
    /\ processing_time = Unset
    /\ confidence_score = Unset
    /\ response = None
    /\ exc = None
    /\ http = None

\* a new request starts with nothing bound
Reset ==
    /\ pc' = "validate"
    /\ started' = <<>>
    /\ image' = Unset
    /\ warnings' = Unset
    /\ layout' = Unset
    /\ colors' = Unset
    /\ typography' = Unset
    /\ interactive_elements' = Unset
    /\ assets' = Unset
    /\ global_styles' = Unset
    /\ style_guide' = Unset
    /\ component_labels' = Unset
    /\ processing_time' = Unset
    /\ confidence_score' = Unset
    /\ response' = None
    /\ exc' = None
    /\ http' = None

Init ==
    /\ request \in Requests
    /\ prev = None
    /\ Fresh

Raises(stage) == stage \in request.fails

\* the exception an internal failure of a step raises: any Exception
StageError(stage) == {[type |-> t, message |-> "internal failure"] : t \in {"ValueError", "KeyError"}}

(***************************************************************************)
(* main.py analyze_image (the request handler)                             *)
(***************************************************************************)
InvalidType(content_type) ==
    content_type = None \/ content_type.kind # "image"

\* lines 60-65: raise HTTPException(400) inside the try block
Validate ==
    /\ pc = "validate"
    /\ IF InvalidType(request.content_type)
       THEN /\ exc' = [type |-> "HTTPException",
                       message |-> "400: Invalid file type. Please upload an image file (PNG, JPG, SVG)."]
            /\ pc' = "raised"
       ELSE /\ pc' = "read"
            /\ UNCHANGED exc
    /\ UNCHANGED <<request, started, locals, http, prev>>

\* line 68: content = await file.read()
Read ==
    /\ pc = "read"
    /\ pc' = "start"
    /\ UNCHANGED <<request, started, locals, exc, http, prev>>

\* line 75: return analysis_result
HandlerReturn ==
    /\ pc = "returned"
    /\ http' = [status |-> 200, body |-> response]
    /\ pc' = "responded"
    /\ UNCHANGED <<request, started, locals, exc, prev>>

\* lines 77-82: except Exception as e: raise HTTPException(500, ...)
HandlerExcept ==
    /\ pc = "raised"
    /\ http' = [status |-> 500,
                detail |-> [prefix |-> "Error analyzing image: ", error |-> exc.message]]
    /\ pc' = "responded"
    /\ UNCHANGED <<request, started, locals, exc, prev>>

(***************************************************************************)
(* ImageAnalyzer.analyze_image                                             *)
(***************************************************************************)
\* lines 47-48
Start ==
    /\ pc = "start"
    /\ warnings' = <<>>
    /\ pc' = "load"
    /\ UNCHANGED <<request, started, image, layout, colors, typography, interactive_elements, assets, global_styles, style_guide, component_labels, processing_time, confidence_score, response, exc, http, prev>>

\* lines 52-55, and 104-106 when the image is None
Load ==
    /\ pc = "load"
    /\ started' = Append(started, "load")
    /\ image' = load_image(request.data)
    /\ IF image' = None
       THEN /\ exc' = [type |-> "ValueError", message |-> "Could not load image"]
            /\ pc' = "raised"
       ELSE /\ pc' = "classify"
            /\ UNCHANGED exc
    /\ UNCHANGED <<request, warnings, layout, colors, typography, interactive_elements, assets, global_styles, style_guide, component_labels, processing_time, confidence_score, response, http, prev>>

\* variant: a negative classification aborts the analysis
ClassifyOrAbort ==
    /\ pc = "classify"
    /\ started' = Append(started, "classifier")
    /\ IF ~is_website_screenshot(image, Raises("classifier"))
       THEN /\ warnings' = Append(warnings, ScreenshotWarning)
            /\ exc' = [type |-> "ValueError", message |-> ScreenshotWarning]
            /\ pc' = "raised"
       ELSE /\ pc' = "layout"
            /\ UNCHANGED <<warnings, exc>>
    /\ UNCHANGED <<request, image, layout, colors, typography, interactive_elements, assets, global_styles, style_guide, component_labels, processing_time, confidence_score, response, http, prev>>

\* lines 58-59
Classify ==
    /\ pc = "classify"
    /\ started' = Append(started, "classifier")
    /\ warnings' = IF ~is_website_screenshot(image, Raises("classifier"))
                   THEN Append(warnings, ScreenshotWarning)
                   ELSE warnings
    /\ pc' = "layout"
    /\ UNCHANGED <<request, image, layout, colors, typography, interactive_elements, assets, global_styles, style_guide, component_labels, processing_time, confidence_score, response, exc, http, prev>>

\* variant: a layout analysis that fell back to its default is reported
LayoutReported ==
    /\ pc = "layout"
    /\ started' = Append(started, "layout")
    /\ layout' = analyze_layout(image, Raises("layout"))
    /\ warnings' = IF Raises("layout")
                   THEN Append(warnings, "Layout analysis failed")
                   ELSE warnings
    /\ pc' = "colors"
    /\ UNCHANGED <<request, image, colors, typography, interactive_elements, assets, global_styles, style_guide, component_labels, processing_time, confidence_score, response, exc, http, prev>>

\* line 62
Layout ==
    /\ pc = "layout"
    /\ started' = Append(started, "layout")
    /\ layout' = analyze_layout(image, Raises("layout"))
    /\ pc' = "colors"
    /\ UNCHANGED <<request, image, warnings, colors, typography, interactive_elements, assets, global_styles, style_guide, component_labels, processing_time, confidence_score, response, exc, http, prev>>

\* variant: the style guide is synthesized as soon as the colors are known
ColorsThenStyleGuide ==
    /\ pc = "colors"
    /\ started' = started \o <<"colors", "style_guide">>
    /\ colors' = extract_colors(image, Raises("colors"))
    /\ style_guide' = synthesize_style_guide(colors', <<>>, <<>>, Raises("style_guide"))
    /\ pc' = "typography"
    /\ UNCHANGED <<request, image, warnings, layout, typography, interactive_elements, assets, global_styles, component_labels, processing_time, confidence_score, response, exc, http, prev>>

\* line 63
Colors ==
    /\ pc = "colors"
    /\ started' = Append(started, "colors")
    /\ colors' = extract_colors(image, Raises("colors"))
    /\ pc' = "typography"
    /\ UNCHANGED <<request, image, warnings, layout, typography, interactive_elements, assets, global_styles, style_guide, component_labels, processing_time, confidence_score, response, exc, http, prev>>

\* line 64
TypographyStage ==
    /\ pc = "typography"
    /\ started' = Append(started, "typography")
    /\ typography' = analyze_typography(image, Raises("typography"))
    /\ pc' = "elements"
    /\ UNCHANGED <<request, image, warnings, layout, colors, interactive_elements, assets, global_styles, style_guide, component_labels, processing_time, confidence_score, response, exc, http, prev>>

\* line 65
Elements ==
    /\ pc = "elements"
    /\ started' = Append(started, "elements")
    /\ interactive_elements' = detect_interactive_elements(image, Raises("elements"))
    /\ pc' = "assets"
    /\ UNCHANGED <<request, image, warnings, layout, colors, typography, assets, global_styles, style_guide, component_labels, processing_time, confidence_score, response, exc, http, prev>>

\* line 66
Assets ==
    /\ pc = "assets"
    /\ started' = Append(started, "assets")
    /\ assets' = catalog_assets(image, Raises("assets"))
    /\ pc' = "global_styles"
    /\ UNCHANGED <<request, image, warnings, layout, colors, typography, interactive_elements, global_styles, style_guide, component_labels, processing_time, confidence_score, response, exc, http, prev>>

\* line 67
GlobalStyles ==
    /\ pc = "global_styles"
    /\ started' = Append(started, "global_styles")
    /\ global_styles' = analyze_global_styles(image, Raises("global_styles"))
    /\ pc' = "style_guide"
    /\ UNCHANGED <<request, image, warnings, layout, colors, typography, interactive_elements, assets, style_guide, component_labels, processing_time, confidence_score, response, exc, http, prev>>

\* line 68
StyleGuide ==
    /\ pc = "style_guide"
    /\ started' = Append(started, "style_guide")
    /\ \E fonts \in FontStacks(typography) :
          style_guide' = synthesize_style_guide(colors, typography, fonts, Raises("style_guide"))
    /\ pc' = "labels"
    /\ UNCHANGED <<request, image, warnings, layout, colors, typography, interactive_elements, assets, global_styles, component_labels, processing_time, confidence_score, response, exc, http, prev>>

\* line 69
Labels ==
    /\ pc = "labels"
    /\ started' = Append(started, "labels")
    /\ component_labels' = label_components(interactive_elements, Raises("labels"))
    /\ pc' = "confidence"
    /\ UNCHANGED <<request, image, warnings, layout, colors, typography, interactive_elements, assets, global_styles, style_guide, processing_time, confidence_score, response, exc, http, prev>>

\* lines 72-75
Confidence ==
    /\ pc = "confidence"
    /\ started' = Append(started, "confidence")
    /\ processing_time' \in ElapsedMs
    /\ confidence_score' = calculate_confidence(layout, colors, typography, interactive_elements, Raises("confidence"))
    /\ pc' = "assemble"
    /\ UNCHANGED <<request, image, warnings, layout, colors, typography, interactive_elements, assets, global_styles, style_guide, component_labels, response, exc, http, prev>>

\* lines 78-96; an exception here reaches lines 104-106
Assemble ==
    /\ pc = "assemble"
    /\ started' = Append(started, "assemble")
    /\ IF Raises("assemble")
       THEN /\ exc' \in StageError("assemble")
            /\ pc' = "raised"
            /\ UNCHANGED response
       ELSE /\ response' = AnalysisResponse(layout, colors, typography, interactive_elements, assets, global_styles, style_guide, component_labels, image, request.filename, processing_time, confidence_score, warnings)
            /\ pc' = "prompt"
            /\ UNCHANGED exc
    /\ UNCHANGED <<request, image, warnings, layout, colors, typography, interactive_elements, assets, global_styles, style_guide, component_labels, processing_time, confidence_score, http, prev>>

\* lines 99-102; an exception here reaches lines 104-106
Prompt ==
    /\ pc = "prompt"
    /\ started' = Append(started, "prompt")
    /\ IF Raises("prompt")
       THEN /\ exc' \in StageError("prompt")
            /\ pc' = "raised"
            /\ UNCHANGED response
       ELSE /\ response' = [response EXCEPT !.generated_prompt = generate_full_prompt(response)]
            /\ pc' = "returned"
            /\ UNCHANGED exc
    /\ UNCHANGED <<request, image, warnings, layout, colors, typography, interactive_elements, assets, global_styles, style_guide, component_labels, processing_time, confidence_score, http, prev>>

(***************************************************************************)
(* The client sends the same bytes and filename again.  An internal        *)
(* failure of the classifier (the only stage whose outcome the other       *)
(* stages never read) may or may not recur.                                *)
(***************************************************************************)
Toggle(fails, stage) ==
    IF stage \in fails THEN fails \ {stage} ELSE fails \cup {stage}

Resubmit ==
    /\ pc = "responded"
    /\ prev = None
    /\ prev' = [request |-> request, http |-> http, exc |-> exc, response |-> response, started |-> started]
    /\ \E flip \in BOOLEAN :
          request' = [request EXCEPT !.fails = IF flip THEN Toggle(@, "classifier") ELSE @]
    /\ Reset

Next ==
    \/ Validate
    \/ Read
    \/ Start
    \/ Load
    \/ Classify
    \/ Layout
    \/ Colors
    \/ TypographyStage
    \/ Elements
    \/ Assets
    \/ GlobalStyles
    \/ StyleGuide
    \/ Labels
    \/ Confidence
    \/ Assemble
    \/ Prompt
    \/ HandlerReturn
    \/ HandlerExcept
    \/ Resubmit

Spec == Init /\ [][Next]_vars

(***************************************************************************)
(* The Screenshot Classifier on its own: every image of ClassifierImages   *)
(* is classified once.                                                     *)
(***************************************************************************)
MaxContours == 4

ClassifierDims ==
    {<<1000, 500>>, <<2000, 400>>, <<300, 600>>, <<600, 200>>, <<300, 200>>,
     <<299, 200>>, <<300, 199>>, <<300, 700>>, <<700, 200>>}

ContourKinds == {"quad_over", "quad_exact", "triangle"}

\* a contour of the edge map of a width x height image; "quad_exact" covers
\* exactly 1% of the image
EdgeContour(kind, width, height) ==
    [vertices |-> IF kind = "triangle" THEN 3 ELSE 4,
     area |-> IF kind = "quad_exact" THEN (width * height) \div 100
              ELSE (width * height) \div 100 + 1,
     x |-> 0, y |-> 0, w |-> width \div 4, h |-> height \div 4]

ContourKindSeqs == UNION {[1..n -> ContourKinds] : n \in 0..MaxContours}

ClassifierImages ==
    {[MkImage(d, "none", "flat", "none", "none", "none") EXCEPT
         !.edges = [i \in 1..Len(ks) |-> EdgeContour(ks[i], d[1], d[2])]] :
        d \in ClassifierDims, ks \in ContourKindSeqs}

\* analyze_image on decoded image im, about to run the given stage
AtStage(stage, before, im, fs) ==
    /\ request = [content_type |-> ImagePng, filename |-> "shot.png",
                  data |-> [decodable |-> TRUE, image |-> im], fails |-> fs]
    /\ pc = stage
    /\ started = before
    /\ image = im
    /\ warnings = <<>>
    /\ layout = Unset
    /\ colors = Unset
    /\ typography = Unset
    /\ interactive_elements = Unset
    /\ assets = Unset
    /\ global_styles = Unset
    /\ style_guide = Unset
    /\ component_labels = Unset
    /\ processing_time = Unset
    /\ confidence_score = Unset
    /\ response = None
    /\ exc = None
    /\ http = None
    /\ prev = None

InitClassifier ==
    \E im \in ClassifierImages, fs \in {{}, {"classifier"}} :
        AtStage("classify", <<"load">>, im, fs)

SpecClassifier == InitClassifier /\ [][Classify]_vars

(***************************************************************************)
(* The Color Extractor on its own: every assignment of 0..MaxClusterPixels *)
(* blocks of 1000 pixels to each of the 8 clusters.                        *)
(***************************************************************************)
MaxClusterPixels == 2

ClusterCounts ==
    {cnt \in [1..n_colors -> 0..MaxClusterPixels] : \E i \in 1..n_colors : cnt[i] > 0}

ColorImage(cnt) ==
    LET cl == [i \in 1..n_colors |-> [center |-> Palette[i], count |-> 1000 * cnt[i]]]
    IN  [MkImage(<<NumPixels(cl) \div 10, 10>>, "none", "flat", "none", "none", "none")
            EXCEPT !.clusters = cl]

InitColors ==
    \E cnt \in ClusterCounts, fs \in {{}, {"colors"}} :
        AtStage("colors", <<"load", "classifier", "layout">>, ColorImage(cnt), fs)

SpecColors == InitColors /\ [][Colors]_vars

(***************************************************************************)
(* Properties.                                                             *)
(***************************************************************************)
\* the stage has been called in this analysis
Done(stage) == \E i \in 1..Len(started) : started[i] = stage

\* analyze_image has raised (the handler's own HTTPException is raised
\* before analyze_image is called)
AnalyzeRaised == pc = "raised" /\ Done("load")

DecodeError == [type |-> "ValueError", message |-> "Could not load image"]

\* C1: once the image bytes decode, analyze returns a result whichever of
\* its steps fails internally; it raises only when the bytes do not decode.
C1_RaisesOnlyOnDecodeFailure ==
    AnalyzeRaised => ~request.data.decodable

\* C2: when the image bytes do not decode, analyze raises the decode error,
\* builds no result, and starts none of the later stages.
C2_DecodeFailureStopsAnalysis ==
    (Done("load") /\ ~request.data.decodable) =>
        /\ pc \in {"raised", "responded"}
        /\ exc = DecodeError
        /\ response = None
        /\ started = <<"load">>
        /\ pc = "responded" => http.status # 200

C2_Witness ==
    /\ pc = "raised"
    /\ ~request.data.decodable
    /\ started = <<"load">>
    /\ exc = DecodeError

\* C3: a decode failure reaches the caller as an error kind of its own: to
\* the caller of analyze an exception type, and to the client of POST
\* /api/analyze a status, that no other failure has.
C3_DecodeErrorIsDistinctKind ==
    /\ AnalyzeRaised => (exc.type = DecodeError.type <=> ~request.data.decodable)
    /\ (pc = "responded" /\ http.status # 200) =>
          (http.status = 500 <=> exc = DecodeError)

\* C4: every result holds at most 6 colors, 10 typography records, 15
\* interactive elements and 10 assets.
C4_ListCaps ==
    response # None =>
        /\ Len(response.colors) <= 6
        /\ Len(response.typography) <= 10
        /\ Len(response.interactive_elements) <= 15
        /\ Len(response.assets) <= 10

C4_Witness ==
    /\ response # None
    /\ Len(image.clusters) > 6
    /\ Len(image.tokens) > 10
    /\ Len(image.regions) > 15
    /\ image.circles # None
    /\ Len(image.circles.rows) + Len(image.edges) > 10
    /\ Len(response.colors) = 6
    /\ Len(response.typography) = 10
    /\ Len(response.interactive_elements) = 15
    /\ Len(response.assets) = 10

\* C5: the confidence score of every result lies in [0, 1] (0..100
\* hundredths), and so does the value before rounding.
C5_ConfidenceInUnitInterval ==
    /\ Done("confidence") =>
          /\ 0 <= confidence_score.num
          /\ confidence_score.num <= confidence_score.den
    /\ response # None =>
          /\ 0 <= response.confidence_score
          /\ response.confidence_score <= 100

\* a single colour of confidence 1.0 and nothing else detected
C5_Witness ==
    /\ response # None
    /\ Len(response.colors) = 1
    /\ response.colors[1].confidence = Frac(1, 1)
    /\ response.typography = <<>>
    /\ response.interactive_elements = <<>>
    /\ response.confidence_score = 90

\* the share of the pixels assigned to cluster i
Proportion(clusters, i) == Frac(clusters[i].count, NumPixels(clusters))

NumAbove(clusters, p) ==
    Cardinality({i \in 1..Len(clusters) : FracLT(p, Proportion(clusters, i))})

NumAtLeast(clusters, p) ==
    Cardinality({i \in 1..Len(clusters) : FracLE(p, Proportion(clusters, i))})

NonEmptyClusters(clusters) ==
    Cardinality({i \in 1..Len(clusters) : clusters[i].count > 0})

\* C6: the colors list is sorted by non-increasing confidence, and its k-th
\* entry has the k-th largest proportion among all clusters, for as many
\* entries (at most 6) as there are non-empty clusters.
C6_SortedTopSix ==
    Done("colors") =>
        /\ \A k \in 1..(Len(colors) - 1) :
              FracLE(colors[k + 1].confidence, colors[k].confidence)
        /\ ~Raises("colors") =>
              /\ Len(colors) = Min2(6, NonEmptyClusters(image.clusters))
              /\ \A k \in 1..Len(colors) :
                    /\ NumAbove(image.clusters, colors[k].confidence) < k
                    /\ k <= NumAtLeast(image.clusters, colors[k].confidence)

\* 8 non-empty clusters found in an order that is not sorted
C6_Witness ==
    /\ Done("colors")
    /\ NonEmptyClusters(image.clusters) = 8
    /\ Len(colors) = 6
    /\ FracLT(Proportion(image.clusters, 1), Proportion(image.clusters, 8))
    /\ FracLT(colors[6].confidence, colors[1].confidence)

\* the same bytes and filename analysed twice, with the same internal
\* failures, and both analyses returned a result
SameInputTwice ==
    /\ pc = "responded"
    /\ prev # None
    /\ prev.request = request
    /\ prev.http.status = 200
    /\ http.status = 200

WithoutDuration(r) == [r EXCEPT !.processing_time = 0]

WithoutDurationAndPrompt(r) ==
    [r EXCEPT !.processing_time = 0, !.generated_prompt = None]

\* C7 as stated: two analyses of the same input return results equal in
\* every field other than processing_time.
C7_EqualExceptDuration ==
    SameInputTwice => WithoutDuration(response) = WithoutDuration(prev.response)

\* C7 amended: ... equal in every field other than processing_time and
\* generated_prompt; the prompts have the same title, description and
\* sections other than the overview; and results with the same recorded
\* duration are equal in every field.
C7_EqualExceptDurationAndPrompt ==
    SameInputTwice =>
        /\ WithoutDurationAndPrompt(response) = WithoutDurationAndPrompt(prev.response)
        /\ response.generated_prompt.title = prev.response.generated_prompt.title
        /\ response.generated_prompt.description = prev.response.generated_prompt.description
        /\ [response.generated_prompt.sections EXCEPT !.overview = Blank]
              = [prev.response.generated_prompt.sections EXCEPT !.overview = Blank]
        /\ response.processing_time = prev.response.processing_time
              => response = prev.response

C7_Witness ==
    /\ SameInputTwice
    /\ response.processing_time # prev.response.processing_time
    /\ response.colors # <<>>
    /\ response.typography # <<>>

\* C8: a stage that fails internally yields its documented default, and
\* the failure does not leave the stage.
C8_StageDefaults ==
    /\ (Done("classifier") /\ Raises("classifier")) => warnings = <<>>
    /\ (Done("layout") /\ Raises("layout")) =>
          /\ layout.layout_type = "flexbox"
          /\ layout.grid_structure = None
          /\ layout.spacing = [padding |-> "unknown", margin |-> "unknown", gap |-> "unknown"]
          /\ layout.alignment = "unknown"
    /\ (Done("colors") /\ Raises("colors")) => colors = <<>>
    /\ (Done("typography") /\ Raises("typography")) => typography = <<>>
    /\ (Done("elements") /\ Raises("elements")) => interactive_elements = <<>>
    /\ (Done("assets") /\ Raises("assets")) => assets = <<>>
    /\ (AnalyzeRaised /\ request.data.decodable) =>
          (Raises("assemble") \/ Raises("prompt"))

\* every guarded stage failed on an image in which each would have found
\* something, and the analysis returned
C8_Witness ==
    /\ pc = "returned"
    /\ request.fails = GuardedStages
    /\ ~is_website_body(image)
    /\ analyze_layout_body(image).layout_type = "grid"
    /\ analyze_typography_body(image) # <<>>
    /\ detect_interactive_elements_body(image) # <<>>
    /\ catalog_assets_body(image) # <<>>
    /\ response.warnings = <<>>
    /\ response.layout.layout_type = "flexbox"
    /\ response.colors = <<>>

\* the same input analysed twice, classified positive in one analysis and
\* negative in the other (the classifier failed internally in one of them)
ClassifiedBothWays ==
    /\ pc = "responded"
    /\ prev # None
    /\ prev.request.data = request.data
    /\ prev.request.filename = request.filename
    /\ prev.request.fails \ {"classifier"} = request.fails \ {"classifier"}
    /\ prev.http.status = 200
    /\ http.status = 200
    /\ prev.response.warnings # response.warnings

\* C9: a negative classification only adds the warning: every other part of
\* the result is as with a positive classification, and the analysis goes on.
C9_ClassifierAdvisory ==
    /\ ClassifiedBothWays =>
          /\ {prev.response.warnings, response.warnings} = {<<>>, <<ScreenshotWarning>>}
          /\ response.layout = prev.response.layout
          /\ response.colors = prev.response.colors
          /\ response.typography = prev.response.typography
          /\ response.interactive_elements = prev.response.interactive_elements
          /\ response.assets = prev.response.assets
          /\ response.style_guide = prev.response.style_guide
          /\ response.component_labels = prev.response.component_labels
          /\ response.confidence_score = prev.response.confidence_score
    /\ (Done("classifier") /\ warnings # <<>>) =>
          /\ warnings = <<ScreenshotWarning>>
          /\ pc = "layout" \/ Done("layout")
          /\ AnalyzeRaised => (Raises("assemble") \/ Raises("prompt"))

C9_Witness ==
    /\ ClassifiedBothWays
    /\ response.warnings = <<ScreenshotWarning>>
    /\ response.interactive_elements # <<>>
    /\ response.assets # <<>>

\* the classification rule as C10 states it: a rectangular region is a
\* 4-vertex contour of area >= 1% of the image area
ClaimedRectangularRegions(im) ==
    Cardinality({i \in 1..Len(im.edges) :
                    /\ im.edges[i].vertices = 4
                    /\ im.edges[i].area * 100 >= im.width * im.height})

\* as the code counts them: area > 1% of the image area
LargeQuads(im) ==
    Cardinality({i \in 1..Len(im.edges) :
                    /\ im.edges[i].vertices = 4
                    /\ im.edges[i].area * 100 > im.width * im.height})

DimsAccepted(im) ==
    /\ im.height <= 2 * im.width
    /\ im.width <= 3 * im.height
    /\ im.width >= 300
    /\ im.height >= 200

\* C10 as stated: the classifier returns true exactly when the aspect
\* ratio is in [0.5, 3.0], width >= 300, height >= 200 and at least 3
\* contours are quadrilaterals of area >= 1% of the image area.
C10_ClassifierRule ==
    Done("classifier") =>
        (warnings = <<>> <=> (DimsAccepted(image) /\ ClaimedRectangularRegions(image) >= 3))

\* C10 amended: unless it fails internally (and then returns true), the
\* classifier returns true exactly when the aspect ratio is in [0.5, 3.0],
\* width >= 300, height >= 200 and at least 3 contours are quadrilaterals of
\* area strictly greater than 1% of the image area; a 2000x400 image is
\* then classified false whatever its contours.
C10_ClassifierRuleStrictArea ==
    Done("classifier") =>
        /\ ~Raises("classifier") =>
              (warnings = <<>> <=> (DimsAccepted(image) /\ LargeQuads(image) >= 3))
        /\ (~Raises("classifier") /\ image.width = 2000 /\ image.height = 400) =>
              warnings = <<ScreenshotWarning>>
        /\ Raises("classifier") => warnings = <<>>

\* three quadrilaterals of at least 1% of a 1000x500 image, one of them of
\* exactly 1%: classified false
C10_Witness ==
    /\ Done("classifier")
    /\ ~Raises("classifier")
    /\ image.width = 1000 /\ image.height = 500
    /\ ClaimedRectangularRegions(image) = 3
    /\ LargeQuads(image) = 2
    /\ warnings = <<ScreenshotWarning>>

(***************************************************************************)
(* The Layout Analyzer on its own: cv2.HoughLinesP returns None or an      *)
(* array of 1..MaxLines lines, for the horizontal and the vertical lines.  *)
(***************************************************************************)
MaxLines == 3

HoughResults == {None} \cup {[len |-> n] : n \in 1..MaxLines}

LayoutImages ==
    {[MkImage(d, "none", "flat", "none", "none", "none") EXCEPT
         !.h_lines = hl, !.v_lines = vl] :
        d \in Dims, hl \in HoughResults, vl \in HoughResults}

InitLayout ==
    \E im \in LayoutImages, fs \in {{}, {"layout"}} :
        AtStage("layout", <<"load", "classifier">>, im, fs)

SpecLayout == InitLayout /\ [][Layout]_vars

\* C11: the layout is grid exactly when at least 2 horizontal and at least 2
\* vertical lines were detected, with a grid structure of (vertical + 1)
\* columns and (horizontal + 1) rows; in every other case, no line detected
\* included, it is flexbox with no grid structure.
C11_GridRule ==
    Done("layout") =>
        LET h == IF image.h_lines = None THEN 0 ELSE image.h_lines.len
            v == IF image.v_lines = None THEN 0 ELSE image.v_lines.len
        IN  /\ ~Raises("layout") => (layout.layout_type = "grid" <=> (h >= 2 /\ v >= 2))
            /\ layout.layout_type = "grid" =>
                  layout.grid_structure = [columns |-> v + 1, rows |-> h + 1]
            /\ layout.layout_type # "grid" =>
                  /\ layout.layout_type = "flexbox"
                  /\ layout.grid_structure = None

\* 2 horizontal and 3 vertical lines: a grid of 4 columns and 3 rows
C11_Witness ==
    /\ Done("layout")
    /\ ~Raises("layout")
    /\ image.h_lines = [len |-> 2]
    /\ image.v_lines = [len |-> 3]
    /\ layout.layout_type = "grid"
    /\ layout.grid_structure = [columns |-> 4, rows |-> 3]

\* the sum of the confidences of a colors list
SumOfConfidences(cs) ==
    LET RECURSIVE S(_)
        S(i) == IF i = 0 THEN Frac(0, 1) ELSE FracAdd(cs[i].confidence, S(i - 1))
    IN  S(Len(cs))

SameFraction(a, b) == a.num * b.den = b.num * a.den

\* C12: the confidence score is the unweighted mean of the applicable
\* factors only (0.8 for the layout; the mean color confidence, 0.7 and 0.6
\* when colors, typography and elements are non-empty), rounded to two
\* decimals in the result; an empty list adds nothing to the sum and
\* nothing to the number of factors.
C12_MeanOfApplicableFactors ==
    (response # None /\ ~Raises("confidence")) =>
        LET total == FracAdd(Frac(8, 10),
                       FracAdd(IF colors # <<>>
                               THEN FracDivInt(SumOfConfidences(colors), Len(colors))
                               ELSE Frac(0, 1),
                         FracAdd(IF typography # <<>> THEN Frac(7, 10) ELSE Frac(0, 1),
                                 IF interactive_elements # <<>> THEN Frac(6, 10)
                                 ELSE Frac(0, 1))))
            n == 1 + (IF colors # <<>> THEN 1 ELSE 0)
                   + (IF typography # <<>> THEN 1 ELSE 0)
                   + (IF interactive_elements # <<>> THEN 1 ELSE 0)
            mean == FracDivInt(total, n)
            off == response.confidence_score * mean.den - 100 * mean.num
        IN  /\ SameFraction(confidence_score, mean)
            /\ 2 * off <= mean.den
            /\ -2 * off <= mean.den

\* no text found: the mean of 0.8, 0.15 and 0.6 is 31/60, not 31/80
C12_Witness ==
    /\ response # None
    /\ ~Raises("confidence")
    /\ response.typography = <<>>
    /\ Len(response.colors) = 6
    /\ response.interactive_elements # <<>>
    /\ confidence_score = Frac(31, 60)
    /\ response.confidence_score = 52

\* C13: for every assignment of pixels to the 8 clusters, empty clusters
\* included, each color sample's confidence is the fraction of the pixels
\* assigned to the cluster whose center gives the sample's hex code and RGB
\* triple.
C13_ConfidenceOfOwnCluster ==
    (Done("colors") /\ ~Raises("colors")) =>
        \A k \in 1..Len(colors) :
            \E i \in 1..Len(image.clusters) :
                /\ colors[k].rgb = image.clusters[i].center
                /\ colors[k].hex_code = HexCode(image.clusters[i].center)
                /\ SameFraction(colors[k].confidence, Proportion(image.clusters, i))

(***************************************************************************)
(* The usage rule on its own: a first cluster of a chosen center holding   *)
(* n of MaxUsageUnits equal parts of the pixels, the rest in a second,     *)
(* white cluster.                                                          *)
(***************************************************************************)
MaxUsageUnits == 20

\* dark grey, dark saturated, saturated, mid grey, differences of 29, 30,
\* 50 and 51 between the channels, one channel at 99 and at 100
UsageCenters ==
    {<<33, 33, 33>>, <<90, 20, 10>>, <<33, 150, 243>>, <<200, 200, 200>>,
     <<150, 179, 160>>, <<150, 180, 160>>, <<150, 200, 160>>, <<150, 201, 160>>,
     <<99, 99, 99>>, <<99, 99, 100>>}

UsageImage(center, n) ==
    LET cl == [i \in 1..n_colors |->
                 [center |-> IF i = 1 THEN center ELSE Palette[1],
                  count |-> IF i = 1 THEN 500 * n
                            ELSE IF i = 2 THEN 500 * (MaxUsageUnits - n) ELSE 0]]
    IN  [MkImage(<<50 * MaxUsageUnits, 10>>, "none", "flat", "none", "none", "none")
            EXCEPT !.clusters = cl]

InitUsage ==
    \E center \in UsageCenters, n \in 1..MaxUsageUnits :
        AtStage("colors", <<"load", "classifier", "layout">>, UsageImage(center, n), {})

SpecUsage == InitUsage /\ [][Colors]_vars

Dark(rgb) == rgb[1] < 100 /\ rgb[2] < 100 /\ rgb[3] < 100

Spread(rgb) ==
    LET hi == CHOOSE x \in {rgb[1], rgb[2], rgb[3]} : \A y \in {rgb[1], rgb[2], rgb[3]} : y <= x
        lo == CHOOSE x \in {rgb[1], rgb[2], rgb[3]} : \A y \in {rgb[1], rgb[2], rgb[3]} : x <= y
    IN  hi - lo

\* p.num / p.den compared with a / 10
Above(p, a) == 10 * p.num > a * p.den

\* C14: the usage context is decided by the first rule that matches, in
\* this order: proportion > 0.3 Background; all channels < 100 Text;
\* proportion in [0.1, 0.3] and channel spread > 50 Primary/Accent; spread
\* < 30 Border/Divider; otherwise UI Element.
C14_UsagePrecedence ==
    Done("colors") =>
        \A k \in 1..Len(colors) :
            LET c == colors[k]
                p == c.confidence
                u == c.usage_context
            IN  /\ Above(p, 3) => u = "Background"
                /\ (~Above(p, 3) /\ Dark(c.rgb)) => u = "Text"
                /\ (~Above(p, 3) /\ ~Dark(c.rgb) /\ ~Above(p, 1) /\ 10 * p.num # p.den) =>
                      u = IF Spread(c.rgb) < 30 THEN "Border/Divider" ELSE "UI Element"
                /\ (~Above(p, 3) /\ ~Dark(c.rgb) /\ (Above(p, 1) \/ 10 * p.num = p.den)) =>
                      u = IF Spread(c.rgb) > 50 THEN "Primary/Accent"
                          ELSE IF Spread(c.rgb) < 30 THEN "Border/Divider"
                          ELSE "UI Element"

\* a dark saturated color covering exactly 30% is Text
C14_Witness ==
    /\ Done("colors")
    /\ \E k \in 1..Len(colors) :
          /\ colors[k].rgb = <<90, 20, 10>>
          /\ colors[k].confidence = Frac(3, 10)
          /\ colors[k].usage_context = "Text"

(***************************************************************************)
(* The Typography Extractor on its own: pytesseract returns MaxScanTokens  *)
(* tokens in scan order on a 600x400 image, any of them blank; heights     *)
(* around the size bands, boxes inside, across and outside the image.      *)
(***************************************************************************)
MaxScanTokens == 12

ScanHeights == <<10, 15, 22, 23, 24, 30, 31, 32, 40, 23, 31, 50>>

\* left, top and width of the box of token i; the height is ScanHeights'
ScanBoxes ==
    << <<20, 30, 40>>, <<-1, 30, 40>>, <<20, -1, 40>>, <<560, 30, 40>>,
       <<561, 30, 40>>, <<20, 370, 40>>, <<20, 370, 40>>, <<20, 30, 0>>,
       <<0, 0, 600>>, <<20, 377, 40>>, <<20, 30, 40>>, <<600, 30, 0>> >>

ScanToken(i, blank) ==
    LET j == ((i - 1) % 12) + 1
    IN  [text |-> IF blank THEN (IF i % 3 = 0 THEN <<>>
                                 ELSE IF i % 3 = 1 THEN <<" ", " ">>
                                 ELSE <<"\t", " ", "\n">>)
                  ELSE IF i % 5 = 0
                       THEN <<" ">> \o IntChars(i) \o [k \in 1..(MaxTextLen + 5) |-> "x"]
                       ELSE <<" ", "w">> \o IntChars(i) \o <<" ", "a", "\n">>,
         left |-> ScanBoxes[j][1],
         top |-> ScanBoxes[j][2],
         width |-> ScanBoxes[j][3],
         height |-> ScanHeights[j],
         mean |-> Palette[(i % 6) + 1]]

TypographyImages ==
    {[MkImage(<<600, 400>>, "none", "flat", "none", "none", "none") EXCEPT
         !.tokens = [i \in 1..MaxScanTokens |-> ScanToken(i, i \in blanks)]] :
        blanks \in SUBSET (1..MaxScanTokens)}

InitTypography ==
    \E im \in TypographyImages, fs \in {{}, {"typography"}} :
        AtStage("typography", <<"load", "classifier", "layout", "colors">>, im, fs)

SpecTypography == InitTypography /\ [][TypographyStage]_vars

\* the positions of the characters of a text that are not whitespace
Inked(text) == {p \in 1..Len(text) : text[p] \notin {" ", "\t", "\n"}}

\* the scan positions of the tokens with some text
Worded(tokens) == {i \in 1..Len(tokens) : Inked(tokens[i].text) # {}}

\* the scan position of the k-th token with some text
KthWorded(tokens, k) ==
    CHOOSE i \in Worded(tokens) : Cardinality({j \in Worded(tokens) : j <= i}) = k

TypographyDone == Done("typography") /\ ~Raises("typography")

\* C15: the font-size estimate is max(12, 0.8 * h); the record is
\* heading/bold when 0.8 * h > 24, subheading/semi-bold when 0.8 * h is > 18
\* and <= 24, body/normal otherwise.
C15_FontSizeBands ==
    TypographyDone =>
        \A k \in 1..Len(typography) :
            LET h == image.tokens[KthWorded(image.tokens, k)].height
                t == typography[k]
            IN  /\ 8 * h > 240 =>
                      t.element_type = "heading" /\ t.font_weight = "bold"
                /\ (8 * h > 180 /\ 8 * h <= 240) =>
                      t.element_type = "subheading" /\ t.font_weight = "semi-bold"
                /\ 8 * h <= 180 =>
                      t.element_type = "body" /\ t.font_weight = "normal"

\* the text without its leading and trailing whitespace, cut to 100
\* characters
TrimmedText(text) ==
    LET first == CHOOSE p \in Inked(text) : \A q \in Inked(text) : p <= q
        last == CHOOSE p \in Inked(text) : \A q \in Inked(text) : q <= p
    IN  IF last - first + 1 > 100 THEN SubSeq(text, first, first + 99)
        ELSE SubSeq(text, first, last)

\* C16: the typography list is the first 10 tokens with some text, in scan
\* order; blank tokens give no record and do not count toward the cap, and
\* each text content is the stripped text cut to at most 100 characters.
C16_FirstTenWordedTokens ==
    TypographyDone =>
        /\ Len(typography) = Min2(10, Cardinality(Worded(image.tokens)))
        /\ \A k \in 1..Len(typography) :
              /\ typography[k].text_content
                    = TrimmedText(image.tokens[KthWorded(image.tokens, k)].text)
              /\ Len(typography[k].text_content) <= 100

\* 11 tokens with text after a blank first one, one of them over 100
\* characters long: the records are those of tokens 2 to 11
C16_Witness ==
    /\ TypographyDone
    /\ Worded(image.tokens) = 2..12
    /\ Len(typography) = 10
    /\ typography[1].text_content = <<"w", "2", " ", "a">>
    /\ Len(typography[4].text_content) = 100
    /\ typography[10].text_content = <<"w", "1", "1", " ", "a">>

BoxInside(im, tok) ==
    /\ tok.left >= 0
    /\ tok.top >= 0
    /\ tok.left + tok.width <= im.width
    /\ tok.top + tok.height <= im.height

\* C17: a token whose box is not fully inside the image, or encloses no
\* pixel, still gets its record, with color #000000, and the extractor does
\* not fail; a box fully inside with at least one pixel gets the averaged
\* color.
C17_BoxGuard ==
    TypographyDone =>
        /\ Len(typography) = Min2(10, Cardinality(Worded(image.tokens)))
        /\ \A k \in 1..Len(typography) :
              LET tok == image.tokens[KthWorded(image.tokens, k)]
              IN  typography[k].color
                     = IF BoxInside(image, tok) /\ tok.width * tok.height > 0
                       THEN HexCode(tok.mean)
                       ELSE <<"#", "0", "0", "0", "0", "0", "0">>

\* boxes inside, left of, above, right of and below the image and an empty
\* box, each with its record
C17_Witness ==
    /\ TypographyDone
    /\ Worded(image.tokens) = 1..8
    /\ Len(typography) = 8
    /\ typography[1].color = HexCode(image.tokens[1].mean)
    /\ typography[1].color # Black
    /\ typography[4].color = HexCode(image.tokens[4].mean)
    /\ \A k \in {2, 3, 5, 7, 8} : typography[k].color = Black

(***************************************************************************)
(* The Element Detector on its own: cv2.findContours returns 0 to          *)
(* MaxScanContours contours on a 600x400 image; bounding rectangles at the *)
(* borders of the classification rules, areas inside the accepted range    *)
(* or, for any of the first MaxRejected contours, on its borders.          *)
(***************************************************************************)
MaxScanContours == 18
MaxRejected == 6

\* width and height of the bounding rectangles
ScanRects ==
    << <<30, 20>>, <<29, 20>>, <<300, 100>>, <<121, 20>>, <<60, 19>>, <<57, 19>>,
       <<120, 20>>, <<303, 101>>, <<400, 101>>, <<350, 50>>, <<357, 51>>,
       <<100, 200>> >>

ScanContour(i, rejected) ==
    LET j == ((i - 1) % 12) + 1
        large == ScanRects[j][1] * ScanRects[j][2] >= 24000
    IN  [area |-> IF rejected THEN (IF large THEN 24000 ELSE 500)
                  ELSE (IF large THEN 23999 ELSE 501),
         x |-> 10 * i,
         y |-> 5 * i,
         w |-> ScanRects[j][1],
         h |-> ScanRects[j][2],
         mean |-> Palette[(i % n_colors) + 1]]

ElementImages ==
    {[MkImage(<<600, 400>>, "none", "flat", "none", "none", "none") EXCEPT
         !.regions = [i \in 1..n |-> ScanContour(i, i \in rejected)]] :
        n \in 0..MaxScanContours, rejected \in SUBSET (1..MaxRejected)}

InitElements ==
    \E im \in ElementImages, fs \in {{}, {"elements"}} :
        AtStage("elements", <<"load", "classifier", "layout", "colors", "typography">>, im, fs)

SpecElements == InitElements /\ [][Elements]_vars

\* the discovery positions of the contours of area in (500, 10% of the image)
Sized(im) ==
    {i \in 1..Len(im.regions) :
        /\ im.regions[i].area > 500
        /\ 10 * im.regions[i].area < im.width * im.height}

KthSized(im, k) ==
    CHOOSE i \in Sized(im) : Cardinality({j \in Sized(im) : j <= i}) = k

ElementsDone == Done("elements") /\ ~Raises("elements")

\* C18: the elements are the first 15 contours, in discovery order, of area
\* strictly between 500 and 10% of the image area; each is a button when
\* its aspect is in [1.5, 6.0] and its height in [20, 100], otherwise an
\* input when its aspect is > 3.0 and its height <= 50, otherwise a
\* container.
C18_ElementFilterAndKinds ==
    ElementsDone =>
        /\ Len(interactive_elements) = Min2(15, Cardinality(Sized(image)))
        /\ \A k \in 1..Len(interactive_elements) :
              LET c == image.regions[KthSized(image, k)]
                  e == interactive_elements[k]
                  button == /\ 2 * c.w >= 3 * c.h
                            /\ c.w <= 6 * c.h
                            /\ c.h >= 20
                            /\ c.h <= 100
                  input == c.w > 3 * c.h /\ c.h <= 50
              IN  /\ e.position = [x |-> c.x, y |-> c.y]
                  /\ e.dimensions = [width |-> c.w, height |-> c.h]
                  /\ button => e.element_type = "button"
                  /\ (~button /\ input) => e.element_type = "input"
                  /\ (~button /\ ~input) => e.element_type = "container"

\* 18 contours, the first (area 500) and the third (area 10% of the image)
\* rejected: the elements are contours 2 and 4 to 17
C18_Witness ==
    /\ ElementsDone
    /\ Len(image.regions) = 18
    /\ image.regions[1].area = 500
    /\ image.regions[3].area = 24000
    /\ Sized(image) = (2..18) \ {3}
    /\ Len(interactive_elements) = 15
    /\ interactive_elements[1].element_type = "container"
    /\ interactive_elements[2].element_type = "input"
    /\ interactive_elements[5].element_type = "button"
    /\ interactive_elements[15].position = [x |-> 170, y |-> 85]

(***************************************************************************)
(* The Asset Cataloger on its own: cv2.HoughCircles returns None or 1 to   *)
(* MaxScanCircles circles, the edge map 0 to MaxEdgeContours contours, any *)
(* of them just outside the rule for content images.                       *)
(***************************************************************************)
MaxScanCircles == 12
MaxEdgeContours == 4

\* area, width and height: contours the image rule accepts, at its borders
PictureShapes ==
    << <<2001, 51, 51>>, <<6000, 300, 100>>, <<6000, 60, 120>>, <<6000, 100, 60>> >>

\* contours it rejects: area 2000, width 50, aspect above 3.0 and below 0.5
OtherShapes ==
    << <<2000, 100, 60>>, <<2500, 50, 60>>, <<6000, 301, 100>>, <<6000, 59, 120>> >>

EdgeShape(i, picture) ==
    LET j == ((i - 1) % 4) + 1
        shape == IF picture THEN PictureShapes[j] ELSE OtherShapes[j]
    IN  [vertices |-> 4, area |-> shape[1], x |-> 120 * i, y |-> 200,
         w |-> shape[2], h |-> shape[3]]

AssetImages ==
    {[MkImage(<<600, 400>>, "none", "flat", "none", "none", "none") EXCEPT
         !.circles = IF n = 0 THEN None ELSE [rows |-> [i \in 1..n |-> Circle(i)]],
         !.edges = [i \in 1..m |-> EdgeShape(i, i \in pictures)]] :
        n \in 0..MaxScanCircles, m \in 0..MaxEdgeContours,
        pictures \in SUBSET (1..MaxEdgeContours)}

InitAssets ==
    \E im \in AssetImages, fs \in {{}, {"assets"}} :
        AtStage("assets", <<"load", "classifier", "layout", "colors", "typography", "elements">>, im, fs)

SpecAssets == InitAssets /\ [][Assets]_vars

NumCircles(im) == IF im.circles = None THEN 0 ELSE Len(im.circles.rows)

\* the discovery positions of the contours that are image candidates
Pictured(im) ==
    {i \in 1..Len(im.edges) :
        /\ im.edges[i].area > 2000
        /\ 2 * im.edges[i].w >= im.edges[i].h
        /\ im.edges[i].w <= 3 * im.edges[i].h
        /\ im.edges[i].w > 50
        /\ im.edges[i].h > 50}

KthPictured(im, k) ==
    CHOOSE i \in Pictured(im) : Cardinality({j \in Pictured(im) : j <= i}) = k

AssetsDone == Done("assets") /\ ~Raises("assets")

\* C19: the assets list is the first 10 entries of all icon candidates in
\* detection order followed by all image candidates in detection order:
\* every icon precedes every image, and with 10 or more icons there is no
\* image.
C19_IconsBeforeImages ==
    AssetsDone =>
        LET icons == NumCircles(image)
        IN  /\ Len(assets) = Min2(10, icons + Cardinality(Pictured(image)))
            /\ \A k \in 1..Len(assets) :
                  IF k <= icons
                  THEN /\ assets[k].asset_type = "icon"
                       /\ assets[k].position
                             = [x |-> image.circles.rows[k].x - image.circles.rows[k].r,
                                y |-> image.circles.rows[k].y - image.circles.rows[k].r]
                  ELSE /\ assets[k].asset_type = "image"
                       /\ assets[k].position
                             = [x |-> image.edges[KthPictured(image, k - icons)].x,
                                y |-> image.edges[KthPictured(image, k - icons)].y]
            /\ \A a, b \in 1..Len(assets) :
                  (assets[a].asset_type = "image" /\ assets[b].asset_type = "icon") => b < a
            /\ icons >= 10 => \A k \in 1..Len(assets) : assets[k].asset_type = "icon"

\* 8 icons and 3 image candidates: 8 icons, then the first 2 images
C19_Witness ==
    /\ AssetsDone
    /\ NumCircles(image) = 8
    /\ Pictured(image) = {1, 3, 4}
    /\ Len(assets) = 10
    /\ assets[8].asset_type = "icon"
    /\ assets[9].position = [x |-> 120, y |-> 200]
    /\ assets[10].position = [x |-> 360, y |-> 200]

(***************************************************************************)
(* The Style Guide Synthesizer on its own, on the colors list the Color    *)
(* Extractor returns for every assignment of 0..MaxClusterPixels blocks of *)
(* pixels to the 8 clusters, with and without typography, and on the empty *)
(* list of a Color Extractor that failed (on one image: the empty list is  *)
(* the same for all).                                                      *)
(***************************************************************************)
InitStyleGuide ==
    \E cnt \in ClusterCounts, text \in Amounts, fs \in {{}, {"style_guide"}}, colors_raised \in BOOLEAN :
        LET im == [ColorImage(cnt) EXCEPT
                      !.tokens = IF text = "none" THEN <<>>
                                 ELSE [i \in 1..2 |-> Token(i)]]
        IN  /\ colors_raised => cnt = [i \in 1..n_colors |-> 1]
            /\ request = [content_type |-> ImagePng, filename |-> "shot.png",
                          data |-> [decodable |-> TRUE, image |-> im],
                          fails |-> IF colors_raised THEN fs \cup {"colors"} ELSE fs]
            /\ pc = "style_guide"
            /\ started = <<"load", "classifier", "layout", "colors", "typography", "elements", "assets", "global_styles">>
            /\ image = im
            /\ warnings = <<>>
            /\ layout = analyze_layout(im, FALSE)
            /\ colors = extract_colors(im, colors_raised)
            /\ typography = analyze_typography(im, FALSE)
            /\ interactive_elements = <<>>
            /\ assets = <<>>
            /\ global_styles = analyze_global_styles(im, FALSE)
            /\ style_guide = Unset
            /\ component_labels = Unset
            /\ processing_time = Unset
            /\ confidence_score = Unset
            /\ response = None
            /\ exc = None
            /\ http = None
            /\ prev = None

SpecStyleGuide == InitStyleGuide /\ [][StyleGuide]_vars

\* the positions among the first 3 colors of those of confidence > 0.1
Leading(cs) ==
    {k \in 1..Min2(3, Len(cs)) : 10 * cs[k].confidence.num > cs[k].confidence.den}

KthLeading(cs, j) ==
    CHOOSE k \in Leading(cs) : Cardinality({i \in Leading(cs) : i <= k}) = j

Members(seq) == {seq[i] : i \in 1..Len(seq)}

StyleGuideDone == Done("style_guide") /\ ~Raises("style_guide")

\* C20: the primary colors are the hex codes of the entries among the first
\* 3 of the colors list whose confidence is > 0.1, in order; the secondary
\* colors are the hex codes of entries 4 to 6; no entry is in both lists and
\* a first-3 entry of confidence <= 0.1 is in neither.
C20_PrimaryAndSecondary ==
    StyleGuideDone =>
        LET primary == style_guide.primary_colors
            secondary == style_guide.secondary_colors
        IN  /\ Len(primary) = Cardinality(Leading(colors))
            /\ \A j \in 1..Len(primary) :
                  primary[j] = colors[KthLeading(colors, j)].hex_code
            /\ Len(secondary) = Max2(0, Len(colors) - 3)
            /\ \A j \in 1..Len(secondary) : secondary[j] = colors[3 + j].hex_code
            /\ Members(primary) \cap Members(secondary) = {}
            /\ \A k \in 1..Min2(3, Len(colors)) :
                  k \notin Leading(colors) =>
                      colors[k].hex_code \notin Members(primary) \cup Members(secondary)

\* 6 colors, the third of confidence exactly 0.1: 2 primary colors, and
\* entries 4 to 6 as secondary colors
C20_Witness ==
    /\ StyleGuideDone
    /\ Len(colors) = 6
    /\ colors[3].confidence = Frac(1, 10)
    /\ Len(style_guide.primary_colors) = 2
    /\ Len(style_guide.secondary_colors) = 3
    /\ style_guide.secondary_colors[1] = colors[4].hex_code

\* C21: in the style guide of every result analyze returns, design token
\* "primary" is the first primary color, or #2196f3 when there is none,
\* and design token "secondary" is the first secondary color, or #757575
\* when there is none; both tokens are present in the map.
C21_DesignTokens ==
    pc = "returned" =>
        LET guide == response.style_guide
        IN  /\ guide.design_tokens # <<>>
            /\ guide.design_tokens.primary
                  = IF guide.primary_colors # <<>> THEN guide.primary_colors[1]
                    ELSE <<"#", "2", "1", "9", "6", "f", "3">>
            /\ guide.design_tokens.secondary
                  = IF guide.secondary_colors # <<>> THEN guide.secondary_colors[1]
                    ELSE <<"#", "7", "5", "7", "5", "7", "5">>

(***************************************************************************)
(* The Component Labeler on its own, on every elements list of up to       *)
(* MaxLabelled buttons, inputs and containers.                             *)
(***************************************************************************)
MaxLabelled == 5

ElementKinds == {"button", "input", "container"}

ElementLists ==
    UNION {[1..n -> ElementKinds] : n \in 0..MaxLabelled}

ElementOfKind(i, kind) ==
    [InteractiveElement(Region(i)) EXCEPT !.element_type = kind]

InitLabels ==
    \E kinds \in ElementLists, fs \in {{}, {"labels"}} :
        LET im == SampleImage
        IN  /\ request = [content_type |-> ImagePng, filename |-> "shot.png",
                          data |-> [decodable |-> TRUE, image |-> im], fails |-> fs]
            /\ pc = "labels"
            /\ started = <<"load", "classifier", "layout", "colors", "typography", "elements", "assets", "global_styles", "style_guide">>
            /\ image = im
            /\ warnings = <<>>
            /\ layout = analyze_layout(im, FALSE)
            /\ colors = <<>>
            /\ typography = <<>>
            /\ interactive_elements = [i \in 1..Len(kinds) |-> ElementOfKind(i, kinds[i])]
            /\ assets = <<>>
            /\ global_styles = analyze_global_styles(im, FALSE)
            /\ style_guide = StyleGuideDefault
            /\ component_labels = Unset
            /\ processing_time = Unset
            /\ confidence_score = Unset
            /\ response = None
            /\ exc = None
            /\ http = None
            /\ prev = None

SpecLabels == InitLabels /\ [][Labels]_vars

LabelsDone == Done("labels") /\ ~Raises("labels")

\* how many of the first j elements are of the kind
OfKindUpTo(elements, kind, j) ==
    Cardinality({i \in 1..j : elements[i].element_type = kind})

\* C22: the k-th button of the list is labeled "Button k", the k-th input
\* "Input Field k", and an element of another kind at list index i
\* "Container {i+1}".
C22_LabelsPerKind ==
    LabelsDone =>
        /\ Len(component_labels) = Len(interactive_elements)
        /\ \A j \in 1..Len(component_labels) :
              LET kind == interactive_elements[j].element_type
              IN  component_labels[j].label
                     = IF kind = "button"
                       THEN <<"Button", OfKindUpTo(interactive_elements, "button", j)>>
                       ELSE IF kind = "input"
                       THEN <<"Input Field", OfKindUpTo(interactive_elements, "input", j)>>
                       ELSE <<"Container", j>>

\* container, button, input, container, button
C22_Witness ==
    /\ LabelsDone
    /\ Len(interactive_elements) = 5
    /\ component_labels[1].label = <<"Container", 1>>
    /\ component_labels[2].label = <<"Button", 1>>
    /\ component_labels[3].label = <<"Input Field", 1>>
    /\ component_labels[4].label = <<"Container", 4>>
    /\ component_labels[5].label = <<"Button", 2>>

\* C28: the label map of a list of n elements has n entries, with keys
\* element_0 .. element_{n-1}, and no two elements have the same label text.
C28_OneDistinctLabelEach ==
    LabelsDone =>
        /\ Len(component_labels) = Len(interactive_elements)
        /\ \A j \in 1..Len(component_labels) :
              component_labels[j].key = <<"element_", j - 1>>
        /\ \A a, b \in 1..Len(component_labels) :
              component_labels[a].label = component_labels[b].label => a = b

\* a button and an input first, then containers: "Button 1", "Input Field
\* 1", "Container 3"
C28_Witness ==
    /\ LabelsDone
    /\ Len(interactive_elements) = 5
    /\ interactive_elements[1].element_type = "button"
    /\ interactive_elements[2].element_type = "input"
    /\ interactive_elements[3].element_type = "container"
    /\ component_labels[1].label[2] = 1
    /\ component_labels[2].label[2] = 1
    /\ component_labels[5].key = <<"element_", 4>>

\* C25: a POST /api/analyze whose content type is missing or does not start
\* with "image/" is answered with HTTP 400 and the detail "Invalid file
\* type. Please upload an image file (PNG, JPG, SVG).", and the analyzer is
\* not invoked.
C25_InvalidTypeAnswered400 ==
    (pc = "responded" /\ InvalidType(request.content_type)) =>
        /\ http.status = 400
        /\ http.detail = "Invalid file type. Please upload an image file (PNG, JPG, SVG)."
        /\ started = <<>>
        /\ warnings = Unset

\* C26: in every analysis that reaches confidence scoring the layout has a
\* kind, also when it is the failure default of the layout analyzer, so the
\* factor 0.8 is among the averaged factors and the list of factors is never
\* empty: the score is the mean of 0.8 and the other applicable factors,
\* never the 0.5 of the branch for an empty list.
C26_LayoutFactorAlwaysAveraged ==
    Done("confidence") =>
        /\ layout.layout_type \in {"grid", "flexbox"}
        /\ ~Raises("confidence") =>
              LET others ==
                      (IF colors # <<>>
                       THEN <<FracDivInt(SumOfConfidences(colors), Len(colors))>>
                       ELSE <<>>)
                      \o (IF typography # <<>> THEN <<Frac(7, 10)>> ELSE <<>>)
                      \o (IF interactive_elements # <<>> THEN <<Frac(6, 10)>> ELSE <<>>)
              IN  SameFraction(confidence_score,
                               FracDivInt(FracAdd(Frac(8, 10), FracSum(others)),
                                          1 + Len(others)))

\* the layout analyzer failed and nothing but colors was found: the score is
\* the mean of 0.8 and the mean color confidence
C26_Witness ==
    /\ Done("confidence")
    /\ Raises("layout")
    /\ ~Raises("confidence")
    /\ layout = LayoutDefault
    /\ typography = <<>>
    /\ interactive_elements = <<>>
    /\ colors # <<>>
    /\ SameFraction(confidence_score,
                    FracDivInt(FracAdd(Frac(8, 10),
                                       FracDivInt(SumOfConfidences(colors), Len(colors))),
                               2))

\* C27: the warnings list of every analysis result is empty or holds exactly
\* the one warning of the screenshot classifier; a stage that fell back to
\* its default adds no warning.
C27_OnlyClassifierWarning ==
    response # None =>
        /\ response.warnings \in {<<>>, <<ScreenshotWarning>>}
        /\ response.warnings = <<ScreenshotWarning>>
              <=> ~is_website_screenshot(image, Raises("classifier"))

\* the layout analyzer failed on an image the classifier accepts: the
\* result carries the layout default and no warning
C27_Witness ==
    /\ pc = "returned"
    /\ Raises("layout")
    /\ layout = LayoutDefault
    /\ response.warnings = <<>>

\* C29: whenever the Color Extractor returned a non-empty list, its first
\* sample has a confidence above 0.1, so the primary colors are not empty
\* and design token "primary" is the hex code of that sample; the token is
\* the fallback #2196f3 (the branch for no primary color) only when the
\* colors list is empty.
C29_PrimaryTokenIsFirstSample ==
    StyleGuideDone =>
        /\ colors # <<>> =>
              /\ FracLT(Frac(1, 10), colors[1].confidence)
              /\ style_guide.primary_colors # <<>>
              /\ style_guide.design_tokens.primary = colors[1].hex_code
        /\ style_guide.primary_colors = <<>> <=> colors = <<>>
        /\ colors = <<>> => style_guide.design_tokens.primary = FallbackPrimary

\* 8 clusters of equal size: the first sample has confidence 1/8 and gives
\* the primary token
C29_Witness ==
    /\ StyleGuideDone
    /\ Len(colors) = 6
    /\ colors[1].confidence = Frac(1, 8)
    /\ style_guide.primary_colors # <<>>
    /\ style_guide.design_tokens.primary = colors[1].hex_code

\* C30: the button rule takes precedence over the input rule: a box that
\* satisfies both (aspect in (3.0, 6.0], height in [20, 50]) is a button,
\* and a box is an input only when its aspect is > 6.0 with a height <= 50
\* or its aspect is > 3.0 with a height < 20.
C30_ButtonBeforeInput ==
    ElementsDone =>
        \A k \in 1..Len(interactive_elements) :
            LET c == image.regions[KthSized(image, k)]
                e == interactive_elements[k]
            IN  /\ (c.w > 3 * c.h /\ c.w <= 6 * c.h /\ c.h >= 20 /\ c.h <= 50)
                      => e.element_type = "button"
                /\ e.element_type = "input"
                      <=> \/ c.w > 6 * c.h /\ c.h <= 50
                          \/ c.w > 3 * c.h /\ c.h < 20

\* a 120x20 box (aspect 6.0) is a button although the input rule also
\* accepts it; 121x20 and 60x19 boxes are inputs
C30_Witness ==
    /\ ElementsDone
    /\ Sized(image) = 1..12
    /\ interactive_elements[7].dimensions = [width |-> 120, height |-> 20]
    /\ interactive_elements[7].element_type = "button"
    /\ interactive_elements[4].dimensions = [width |-> 121, height |-> 20]
    /\ interactive_elements[4].element_type = "input"
    /\ interactive_elements[5].dimensions = [width |-> 60, height |-> 19]
    /\ interactive_elements[5].element_type = "input"

\* stage a ran, and stage b has not run or ran after it
Precedes(a, b) ==
    \E i \in 1..Len(started) :
        /\ started[i] = a
        /\ \A j \in 1..i : started[j] # b

ExtractionStages ==
    {"layout", "colors", "typography", "elements", "assets", "global_styles"}

\* C23: within one analysis the stages run in dependency order: no
\* extraction stage runs before the decode succeeded and the classifier
\* returned; the style guide is synthesized only after colors and
\* typography, the labels only after element detection, the confidence only
\* after layout, colors, typography and elements; the result is assembled
\* after all of them; and no stage runs twice.
C23_DependencyOrder ==
    /\ \A i, j \in 1..Len(started) : started[i] = started[j] => i = j
    /\ \A st \in ExtractionStages :
          Done(st) => /\ image \notin {None, Unset}
                      /\ Precedes("load", st)
                      /\ Precedes("classifier", st)
    /\ Done("style_guide") =>
          Precedes("colors", "style_guide") /\ Precedes("typography", "style_guide")
    /\ Done("labels") => Precedes("elements", "labels")
    /\ Done("confidence") =>
          \A st \in {"layout", "colors", "typography", "elements"} :
              Precedes(st, "confidence")
    /\ Done("assemble") =>
          \A st \in GuardedStages \cup {"load"} : Precedes(st, "assemble")
    /\ (pc = "raised" /\ exc = DecodeError) => started = <<"load">>

\* a complete analysis: every stage once, in the order of the code
C23_Witness ==
    /\ pc = "returned"
    /\ started = <<"load", "classifier", "layout", "colors", "typography", "elements", "assets", "global_styles", "style_guide", "labels", "confidence", "assemble", "prompt">>

(***************************************************************************)
(* Concurrent invocations of analyze_image on the one ImageAnalyzer of     *)
(* main.py.  The instance has no field that analyze_image assigns; every   *)
(* name the method binds is a local of the invocation.  In this            *)
(* specification each variable of the analyzer holds one value per         *)
(* invocation.  An invocation may be suspended at each await of lines      *)
(* 62-69; lines 47-59 and 72-106 have no await and run without             *)
(* interruption.  started[c] lists the steps invocation c took while the   *)
(* other invocation was suspended.                                         *)
(***************************************************************************)
Calls == {"first", "second"}

PlainImage == MkImage(<<600, 400>>, "none", "flat", "none", "none", "none")

CallRequests ==
    {r \in Requests :
        /\ r.content_type = ImagePng
        /\ r.data.decodable => r.data.image \in {SampleImage, PlainImage}
        /\ r.fails \in {{}, {"colors"}, {"prompt"}}}

AwaitedStages ==
    <<"layout", "colors", "typography", "elements", "assets", "global_styles", "style_guide", "labels">>

AfterStage(stage) ==
    LET i == CHOOSE j \in 1..Len(AwaitedStages) : AwaitedStages[j] = stage
    IN  IF i < Len(AwaitedStages) THEN AwaitedStages[i + 1] ELSE "finish"

Suspended(c) == pc[c] \notin {"call", "returned", "raised"}

Ran(c, step) ==
    [started EXCEPT ![c] = IF \E d \in Calls \ {c} : Suspended(d)
                           THEN Append(@, step) ELSE @]

InitCalls ==
    /\ request \in [Calls -> CallRequests]
    /\ pc = [c \in Calls |-> "call"]
    /\ started = [c \in Calls |-> <<>>]
    /\ image = [c \in Calls |-> Unset]
    /\ warnings = [c \in Calls |-> Unset]
    /\ layout = [c \in Calls |-> Unset]
    /\ colors = [c \in Calls |-> Unset]
    /\ typography = [c \in Calls |-> Unset]
    /\ interactive_elements = [c \in Calls |-> Unset]
    /\ assets = [c \in Calls |-> Unset]
    /\ global_styles = [c \in Calls |-> Unset]
    /\ style_guide = [c \in Calls |-> Unset]
    /\ component_labels = [c \in Calls |-> Unset]
    /\ processing_time = [c \in Calls |-> Unset]
    /\ confidence_score = [c \in Calls |-> Unset]
    /\ response = [c \in Calls |-> None]
    /\ exc = [c \in Calls |-> None]
    /\ http = None
    /\ prev = None

\* variant: the warnings are kept in a list of the analyzer instance
EnterSharedWarnings(c) ==
    /\ pc[c] = "call"
    /\ LET im == load_image(request[c].data)
       IN  /\ image' = [image EXCEPT ![c] = im]
           /\ IF im = None
              THEN /\ warnings' = [d \in Calls |-> <<>>]
                   /\ exc' = [exc EXCEPT ![c] = DecodeError]
                   /\ pc' = [pc EXCEPT ![c] = "raised"]
              ELSE /\ warnings' = [d \in Calls |->
                                    IF ~is_website_screenshot(im, "classifier" \in request[c].fails)
                                    THEN <<ScreenshotWarning>> ELSE <<>>]
                   /\ pc' = [pc EXCEPT ![c] = "layout"]
                   /\ UNCHANGED exc
    /\ started' = Ran(c, "enter")
    /\ UNCHANGED <<request, layout, colors, typography, interactive_elements, assets, global_styles, style_guide, component_labels, processing_time, confidence_score, response, http, prev>>

\* lines 47-59: up to the first await
EnterOf(c) ==
    /\ pc[c] = "call"
    /\ LET im == load_image(request[c].data)
       IN  /\ image' = [image EXCEPT ![c] = im]
           /\ IF im = None
              THEN /\ warnings' = [warnings EXCEPT ![c] = <<>>]
                   /\ exc' = [exc EXCEPT ![c] = DecodeError]
                   /\ pc' = [pc EXCEPT ![c] = "raised"]
              ELSE /\ warnings' = [warnings EXCEPT ![c] =
                                    IF ~is_website_screenshot(im, "classifier" \in request[c].fails)
                                    THEN <<ScreenshotWarning>> ELSE <<>>]
                   /\ pc' = [pc EXCEPT ![c] = "layout"]
                   /\ UNCHANGED exc
    /\ started' = Ran(c, "enter")
    /\ UNCHANGED <<request, layout, colors, typography, interactive_elements, assets, global_styles, style_guide, component_labels, processing_time, confidence_score, response, http, prev>>

\* lines 62-69: one awaited stage
AwaitOf(c) ==
    /\ pc[c] \in {AwaitedStages[i] : i \in 1..Len(AwaitedStages)}
    /\ LET stage == pc[c]
           raised == stage \in request[c].fails
       IN  /\ layout' = IF stage = "layout"
                        THEN [layout EXCEPT ![c] = analyze_layout(image[c], raised)]
                        ELSE layout
           /\ colors' = IF stage = "colors"
                        THEN [colors EXCEPT ![c] = extract_colors(image[c], raised)]
                        ELSE colors
           /\ typography' = IF stage = "typography"
                            THEN [typography EXCEPT ![c] = analyze_typography(image[c], raised)]
                            ELSE typography
           /\ interactive_elements' =
                 IF stage = "elements"
                 THEN [interactive_elements EXCEPT ![c] = detect_interactive_elements(image[c], raised)]
                 ELSE interactive_elements
           /\ assets' = IF stage = "assets"
                        THEN [assets EXCEPT ![c] = catalog_assets(image[c], raised)]
                        ELSE assets
           /\ global_styles' = IF stage = "global_styles"
                               THEN [global_styles EXCEPT ![c] = analyze_global_styles(image[c], raised)]
                               ELSE global_styles
           /\ IF stage = "style_guide"
              THEN \E fonts \in FontStacks(typography[c]) :
                      style_guide' = [style_guide EXCEPT ![c] =
                                         synthesize_style_guide(colors[c], typography[c], fonts, raised)]
              ELSE UNCHANGED style_guide
           /\ component_labels' =
                 IF stage = "labels"
                 THEN [component_labels EXCEPT ![c] = label_components(interactive_elements[c], raised)]
                 ELSE component_labels
           /\ pc' = [pc EXCEPT ![c] = AfterStage(stage)]
           /\ started' = Ran(c, stage)
    /\ UNCHANGED <<request, image, warnings, processing_time, confidence_score, response, exc, http, prev>>

\* lines 72-106: confidence, assembly, prompt and return, or re-raise
FinishOf(c) ==
    /\ pc[c] = "finish"
    /\ \E elapsed \in ElapsedMs :
          LET fails == request[c].fails
              score == calculate_confidence(layout[c], colors[c], typography[c], interactive_elements[c], "confidence" \in fails)
              result == AnalysisResponse(layout[c], colors[c], typography[c], interactive_elements[c], assets[c], global_styles[c], style_guide[c], component_labels[c], image[c], request[c].filename, elapsed, score, warnings[c])
          IN  /\ processing_time' = [processing_time EXCEPT ![c] = elapsed]
              /\ confidence_score' = [confidence_score EXCEPT ![c] = score]
              /\ IF "assemble" \in fails
                 THEN /\ exc' \in {[exc EXCEPT ![c] = e] : e \in StageError("assemble")}
                      /\ pc' = [pc EXCEPT ![c] = "raised"]
                      /\ UNCHANGED response
                 ELSE IF "prompt" \in fails
                 THEN /\ exc' \in {[exc EXCEPT ![c] = e] : e \in StageError("prompt")}
                      /\ pc' = [pc EXCEPT ![c] = "raised"]
                      /\ response' = [response EXCEPT ![c] = result]
                 ELSE /\ response' = [response EXCEPT ![c] =
                                        [result EXCEPT !.generated_prompt = generate_full_prompt(result)]]
                      /\ pc' = [pc EXCEPT ![c] = "returned"]
                      /\ UNCHANGED exc
    /\ started' = Ran(c, "finish")
    /\ UNCHANGED <<request, image, warnings, layout, colors, typography, interactive_elements, assets, global_styles, style_guide, component_labels, http, prev>>

NextCalls ==
    \E c \in Calls :
        \/ EnterOf(c)
        \/ AwaitOf(c)
        \/ FinishOf(c)

SpecCalls == InitCalls /\ [][NextCalls]_vars

\* the result of an invocation that runs with no other invocation, for the
\* order of the font set and the elapsed time the runtime chose
Alone(req, fonts, elapsed) ==
    LET im == load_image(req.data)
        lay == analyze_layout(im, "layout" \in req.fails)
        cols == extract_colors(im, "colors" \in req.fails)
        typo == analyze_typography(im, "typography" \in req.fails)
        elems == detect_interactive_elements(im, "elements" \in req.fails)
        result == AnalysisResponse(lay, cols, typo, elems,
                      catalog_assets(im, "assets" \in req.fails),
                      analyze_global_styles(im, "global_styles" \in req.fails),
                      synthesize_style_guide(cols, typo, fonts, "style_guide" \in req.fails),
                      label_components(elems, "labels" \in req.fails),
                      im, req.filename, elapsed,
                      calculate_confidence(lay, cols, typo, elems, "confidence" \in req.fails),
                      IF ~is_website_screenshot(im, "classifier" \in req.fails)
                      THEN <<ScreenshotWarning>> ELSE <<>>)
    IN  [result EXCEPT !.generated_prompt = generate_full_prompt(result)]

\* C24: two invocations of analyze on the shared analyzer are independent
\* for every interleaving at their suspension points: each returns the
\* result it returns when it runs alone, with its own warnings and its own
\* stage outputs, and raises only for its own upload.
C24_InvocationsIndependent ==
    \A c \in Calls :
        /\ pc[c] = "returned" =>
              /\ request[c].data.decodable
              /\ \E fonts \in FontStacks(analyze_typography(request[c].data.image, "typography" \in request[c].fails)), elapsed \in ElapsedMs :
                    response[c] = Alone(request[c], fonts, elapsed)
        /\ pc[c] = "raised" =>
              \/ ~request[c].data.decodable /\ exc[c] = DecodeError
              \/ request[c].fails \cap {"assemble", "prompt"} # {}

\* both invocations returned, each took steps while the other was
\* suspended, and only the second one's result has the warning and colors
C24_Witness ==
    /\ \A c \in Calls : pc[c] = "returned" /\ Len(started[c]) >= 3
    /\ response["first"].warnings = <<>>
    /\ response["first"].colors = <<>>
    /\ response["second"].warnings = <<ScreenshotWarning>>
    /\ response["second"].colors # <<>>

=============================================================================
